---- MODULE Spec2Model ----
(***************************************************************************)
(* Workspace provisioning and teardown of tools-iottwinmaker               *)
(* (src/packages/tools-iottwinmaker/src/lib/workspace.ts) as a state       *)
(* machine.  The remote services (IAM, S3, the managed-workspace service)  *)
(* are the environment: their state is part of the model's state, and      *)
(* every awaited remote call is one step that issues the call and takes    *)
(* one of the answers the service can give.                                *)
(***************************************************************************)
EXTENDS Integers, Sequences, FiniteSets, TLC

\* ------------------------------------------------------------------ bounds
\* Sequential invocations of createWorkspaceIfNotExists in one behaviour.
MaxRuns == 2
\* Object keys a bucket may hold when its teardown starts (keys 1..MaxKeys).
MaxKeys == 3
\* Entries the storage service returns on one listing page.
PageSize == 2
\* Profiles, inline policies and managed policies a role has at most.
MaxAssociations == 3
\* Items in one answer of a list call of the identity service.
MaxItems == 2

\* ------------------------------------------------------- program constants
\* prepareWorkspace: retryWorkspaceCreation(..., 10)
MaxAttempts == 10
\* retryWorkspaceCreation: await delay(2000)
DelayMs == 2000

SigAssumeRole == "Could not assume the role provided"
SigAccessS3 == "Could not access S3 with the role provided"

\* ---------------------------------------------------------------- values
Undefined == "undefined"
WorkspaceIds == {"w1", "Demo"}
Regions == {"us-east-1", "us-west-2"}
AccountId == "123456789012"
AccountArn == "arn:aws:iam::123456789012:user/dev"
RoleTypes == {"WorkspaceRole", "WorkspaceDashboardRole"}

\* An error value: the class of the thrown object and its message, the
\* message being a sequence of fragments; String.includes looks for a
\* fragment.
Err(name, message) == [name |-> name, message |-> message]
Includes(message, fragment) == \E i \in DOMAIN message : message[i] = fragment

\* The value of an error variable while nothing has been thrown.
NoError == Err("none", <<>>)

\* The value of an answer variable while no call has been answered.
NoAnswer == [kind |-> "none"]

\* A remote call as it appears in the call log.
Call(op, args) == [op |-> op, args |-> args]

\* Mutant of toLowerCase: the names keep their case.
toLowerCaseIdentity(x) == x

\* String.prototype.toLowerCase on the fragments names are built from
\* (lower-casing a concatenation lower-cases its fragments).
toLowerCase(x) ==
    CASE x = "Demo" -> "demo"
      [] x = "WorkspaceRole" -> "workspacerole"
      [] x = "WorkspaceDashboardRole" -> "workspacedashboardrole"
      [] x = "-AutoPolicy" -> "-autopolicy"
      [] OTHER -> x

\* utils.regionToAirportCode
regionToAirportCode(r) ==
    CASE r = "us-east-1" -> "iad"
      [] r = "us-west-2" -> "pdx"
      [] OTHER -> r

\* createWorkspaceS3Bucket: s3BucketName and s3LoggingBucketName
S3BucketName(w, a, r) ==
    "twinmaker-workspace-" \o toLowerCase(w) \o "-" \o toLowerCase(a) \o "-"
        \o toLowerCase(regionToAirportCode(r))
S3LoggingBucketName(b) == b \o "-logs"
S3BucketArn(b) == "arn:aws:s3:::" \o b

\* createRoleAndPolicy: roleName and policyName (r is the region code)
RoleName(w, a, r, rt) ==
    IF rt = "WorkspaceRole"
    THEN "twinmaker-workspace-" \o toLowerCase(w) \o "-" \o toLowerCase(a) \o "-"
             \o toLowerCase(r)
    ELSE "twinmaker-" \o toLowerCase(rt) \o "-" \o toLowerCase(w) \o "-"
             \o toLowerCase(a) \o "-" \o toLowerCase(r)
PolicyName(w, a, r, rt) == RoleName(w, a, r, rt) \o toLowerCase("-AutoPolicy")

\* ARNs as the services hand them out.
RoleArnOf(roleName) == "arn:aws:iam::" \o AccountId \o ":role/" \o roleName
PolicyArnOf(policyName) == "arn:aws:iam::" \o AccountId \o ":policy/" \o policyName
WorkspaceArnOf(r, w) ==
    "arn:aws:iottwinmaker:" \o r \o ":" \o AccountId \o ":workspace/" \o w

\* A bucket of the storage service: the settings applied to it, its logging
\* target, whether log delivery may write to it, and the object versions and
\* delete markers it holds.  A role of the identity service: its instance
\* profiles, inline policy names and attached managed policy ARNs.
NewBucket == [settings |-> {}, logging |-> Undefined, acl |-> FALSE, entries |-> {}]
NewRole == [profiles |-> {}, inline |-> {}, attached |-> {}]

VARIABLES
    \* ---- remote services
    region,          \* aws().region
    tm,              \* managed-workspace service: workspaceId -> arn
    s3,              \* storage service: bucket name -> settings
    iamRoles,        \* identity service: role name -> its associations
    iamPolicies,     \* identity service: managed policy ARNs
    \* ---- createWorkspaceIfNotExists, one invocation at a time
    pc,              \* the await the invocation is at ("idle": none running)
    workspaceId,     \* its argument
    healthy,         \* whether the services answer without injected faults
    s3BucketName,    \* argument of the createS3Bucket call in progress
    roleType,        \* argument of the createRoleAndPolicy call in progress
    attempts,        \* retryWorkspaceCreation's attempts
    roleArn,         \* createRoleAndPolicy's roleArn
    s3BucketArn,     \* prepareWorkspace's s3BucketArn
    workspaceRoleArn,\* prepareWorkspace's workspaceRoleArn
    workspaceArn,    \* prepareWorkspace's workspaceArn
    lookup,          \* what the first getWorkspace answered
    workspace,       \* createWorkspaceIfNotExists' workspace
    lastErr,         \* err while retryWorkspaceCreation's catch block runs
    \* ---- deleteWorkspaceBucketAndLogs / deleteS3Bucket, one invocation
    workspaceBucket, \* deleteWorkspaceBucketAndLogs' s3BucketName
    nonDryRun,       \* its nonDryRun
    site,            \* which deleteS3Bucket call is in progress: "logs", "workspace"
    isTruncated,     \* deleteS3Bucket's isTruncated
    NextContinuationToken,
    NextVersionIdMarker,
    NextKeyMarker,
    todo,            \* rest of the for loop(s) over the page being processed
    reported,        \* the entries logged as deleted
    pages,           \* the answers to the list calls, in order
    roleName,        \* the argument of deleteIAMroleAndPolicy
    \* ---- prepareWorkspace's policy documents
    policyParams,    \* prepareWorkspace's policyParams
    roleAssumePolicy,\* the roleAssumePolicy passed to createRoleAndPolicy
    rolePolicy,      \* the rolePolicy passed to createRoleAndPolicy
    \* ---- WidgetTile
    readOnly,        \* state.readOnly of the dashboard store
    removeable,      \* the tile's removeable prop
    title,           \* the tile's title prop
    visible,         \* the tile's visible state
    gridEnabled,     \* the store's grid.enabled
    onDeleteCalls,   \* how often onDelete(widget) was invoked
    \* ---- the remote calls in flight
    inFlight,        \* the awaits whose remote call has not been answered
    suspended,       \* whether the function is suspended at an await
    \* ---- observation
    log,             \* remote calls of the invocation in progress, in order
    slept,           \* milliseconds the invocation in progress has spent in delay
    runs,            \* finished invocations: their results, calls and sleep
    history          \* remote calls of the finished invocations

remoteVars == <<region, tm, s3, iamRoles, iamPolicies>>
localVars == <<workspaceId, healthy, s3BucketName, roleType, attempts, roleArn,
               s3BucketArn, workspaceRoleArn, workspaceArn, lookup, workspace, lastErr>>
obsVars == <<log, slept, runs, history>>
teardownVars == <<workspaceBucket, nonDryRun, site, isTruncated, NextContinuationToken,
                  NextVersionIdMarker, NextKeyMarker, todo, reported, pages, roleName>>
renderVars == <<policyParams, roleAssumePolicy, rolePolicy>>
widgetVars == <<readOnly, removeable, title, visible, gridEnabled, onDeleteCalls>>
awaitVars == <<inFlight, suspended>>
auxVars == <<widgetVars, awaitVars>>
vars == <<remoteVars, pc, localVars, teardownVars, obsVars, renderVars, auxVars>>

\* ----------------------------------------------------------- environment
\* Answers of a remote call that has no precondition on the remote state:
\* a healthy service answers, a faulty one may also fail.
RemoteFailure == Err("ServiceException", <<"remote failure">>)
Answers == IF healthy THEN {"ok"} ELSE {"ok", "fail"}

\* What createWorkspace can throw while the services are not healthy.
CreateWorkspaceErrors ==
    { Err("ValidationException", <<SigAssumeRole, ", verify the trust policy">>),
      Err("ValidationException", <<"Workspace creation failed: ", SigAccessS3>>),
      Err("ValidationException", <<"Invalid workspaceId">>),
      Err("AccessDeniedException", <<SigAssumeRole>>) }

\* --------------------------------------------------- shared step helpers
\* Mutant of Answered: the function runs on while its call is in flight.
AnsweredLater(at) == inFlight' = inFlight /\ suspended' = FALSE

\* `await`: the function resumes once the call it issued at `at` has returned
\* or failed.
Answered(at) == inFlight' = inFlight \ {at} /\ suspended' = FALSE

\* The remote call c of the await the function is at is answered.
Issue(c) == log' = Append(log, c) /\ Answered(pc)

\* The invocation ends: its result reaches the caller.
Finish(result) ==
    /\ pc' = "idle"
    /\ runs' = Append(runs, [result |-> result, calls |-> log', slept |-> slept',
                             workspaceId |-> workspaceId, healthy |-> healthy,
                             lookup |-> lookup', workspace |-> workspace'])
    /\ history' = history \o log'

\* Mutant of Throw: a compensating call goes out before the error does.
ThrowAfterCleanup(e) ==
    /\ pc' = "idle"
    /\ runs' = Append(runs, [result |-> [status |-> "error", error |-> e],
                             calls |-> Append(log', Call("deleteBucket", <<>>)),
                             slept |-> slept', workspaceId |-> workspaceId,
                             healthy |-> healthy, lookup |-> lookup',
                             workspace |-> workspace'])
    /\ history' = history \o log'

\* Mutant of Throw: the failed step is entered again.
ThrowRetried(e) == pc' = pc /\ UNCHANGED <<runs, history>>

Throw(e) == Finish([status |-> "error", error |-> e])

Goto(label) == pc' = label /\ UNCHANGED <<runs, history>>


\* ------------------------------------------------------- policy documents
\* The placeholders a policy template may hold, and the policy documents of
\* prepareWorkspace, each as its name and the sequence of its placeholders.
Placeholders ==
    <<"accountId", "accountArn", "region", "workspaceId", "workspaceS3BucketArn",
      "workspaceArn", "dashboardRoleAssumedByArn">>
Template(name, holes) == [document |-> name, text |-> holes]
workspaceRolePolicyTemplate == Template("workspaceRolePolicy", Placeholders)
WORKSPACE_DASHBOARD_ROLE_ASSUME_POLICY ==
    Template("workspaceDashboardRoleAssumePolicy", Placeholders)
workspaceDashboardRolePolicyTemplate ==
    Template("workspaceDashboardRolePolicy", Placeholders)
WORKSPACE_ROLE_ASSUME_POLICY == Template("workspaceRoleAssumePolicy", <<>>)

\* replaceTemplateVars(template, params): every placeholder that is a key of
\* params is replaced by its value, any other one is left as it is.
replaceTemplateVars(template, params) ==
    [template EXCEPT !.text =
        [i \in DOMAIN template.text |->
            IF template.text[i] \in DOMAIN params THEN params[template.text[i]]
            ELSE "{" \o template.text[i] \o "}"]]

\* const policyParams = { accountId, accountArn, region, workspaceId,
\*                        workspaceS3BucketArn: s3BucketArn }
NewPolicyParams(bucketArn) ==
    ("accountId" :> AccountId) @@ ("accountArn" :> AccountArn) @@ ("region" :> region)
    @@ ("workspaceId" :> workspaceId) @@ ("workspaceS3BucketArn" :> bucketArn)

\* Mutant of ExtendPolicyParams: the map is started afresh.
ExtendPolicyParamsAfresh(params, arn) ==
    ("workspaceArn" :> arn) @@ ("dashboardRoleAssumedByArn" :> AccountArn)

\* policyParams.workspaceArn = workspaceArn;
\* policyParams.dashboardRoleAssumedByArn = accountArn
ExtendPolicyParams(params, arn) ==
    ("workspaceArn" :> arn) @@ ("dashboardRoleAssumedByArn" :> AccountArn) @@ params

\* ------------------------------------------------ createWorkspaceIfNotExists
\* The caller invokes createWorkspaceIfNotExists(workspaceId) once no
\* invocation is running.
Invoke ==
    /\ pc = "idle"
    /\ UNCHANGED <<teardownVars, auxVars>>
    /\ Len(runs) < MaxRuns
    /\ healthy' \in BOOLEAN
    /\ pc' = "getWorkspace"
    /\ log' = <<>>
    /\ slept' = 0
    /\ lookup' = NoAnswer
    /\ workspace' = NoAnswer
    /\ lastErr' = NoError
    /\ policyParams' = <<>>
    /\ roleAssumePolicy' = Undefined
    /\ rolePolicy' = Undefined
    /\ s3BucketName' = Undefined
    /\ roleType' = Undefined
    /\ attempts' = 0
    /\ roleArn' = Undefined
    /\ s3BucketArn' = Undefined
    /\ workspaceRoleArn' = Undefined
    /\ workspaceArn' = Undefined
    /\ UNCHANGED <<remoteVars, workspaceId, runs, history>>

\* What getWorkspace can answer: the stored record, in a faulty service also
\* a record without its workspaceId or without its arn, or a failure;
\* ResourceNotFoundException when there is no such workspace.
GetWorkspaceAnswers ==
    IF workspaceId \in DOMAIN tm
    THEN {[kind |-> "record", workspaceId |-> workspaceId, arn |-> tm[workspaceId]]}
         \cup (IF healthy THEN {}
               ELSE {[kind |-> "record", workspaceId |-> Undefined,
                      arn |-> tm[workspaceId]],
                     [kind |-> "record", workspaceId |-> workspaceId,
                      arn |-> Undefined],
                     [kind |-> "error", error |-> RemoteFailure]})
    ELSE {[kind |-> "error",
           error |-> Err("ResourceNotFoundException", <<"Workspace not found">>)]}
         \cup (IF healthy THEN {}
               ELSE {[kind |-> "error", error |-> RemoteFailure]})

\* Mutant of ReturnWorkspace: the arn prepareWorkspace returned is passed on.
ReturnWorkspacePrepared(fetched) ==
    IF fetched.workspaceId = Undefined
    THEN Throw(Err("Error", <<"Unable to get a valid workspace">>))
    ELSE Finish([status |-> "ok", workspaceId |-> workspaceId,
                 workspaceArn |-> workspaceArn])

\* if (!workspace.workspaceId) throw ...; return { workspaceId, workspaceArn }
ReturnWorkspace(fetched) ==
    IF fetched.workspaceId = Undefined
    THEN Throw(Err("Error", <<"Unable to get a valid workspace">>))
    ELSE Finish([status |-> "ok", workspaceId |-> workspaceId,
                 workspaceArn |-> fetched.arn])

\* Mutant of IsResourceNotFound: every getWorkspace failure starts provisioning.
IsResourceNotFoundAnyError(e) == TRUE

\* e instanceof ResourceNotFoundException
IsResourceNotFound(e) == e.name = "ResourceNotFoundException"

\* Mutant of LookupOutcome: provisioning is not skipped for a workspace found.
LookupOutcomeAlwaysPrepare(r) == Goto("getCurrentIdentity")

\* try { workspace = ...; skip creating } catch (e) { if (e instanceof
\* ResourceNotFoundException) prepareWorkspace ... else throw new Error(...) }
LookupOutcome(r) ==
    IF r.kind = "record"
    THEN ReturnWorkspace(r)
    ELSE IF IsResourceNotFound(r.error)
    THEN Goto("getCurrentIdentity")
    ELSE Throw(Err("Error", <<"Failed to get workspace. ", r.error.name>>
                              \o r.error.message))

\* workspace = await aws().tm.getWorkspace({ workspaceId }), first call
GetWorkspace ==
    /\ pc = "getWorkspace"
    /\ UNCHANGED <<teardownVars, renderVars, widgetVars>>
    /\ Issue(Call("getWorkspace", [workspaceId |-> workspaceId]))
    /\ UNCHANGED <<remoteVars, workspaceId, healthy, s3BucketName, roleType, attempts,
                   roleArn, s3BucketArn, workspaceRoleArn, workspaceArn, lastErr,
                   slept>>
    /\ \E r \in GetWorkspaceAnswers :
        /\ lookup' = r
        /\ workspace' = (IF r.kind = "record" THEN r ELSE workspace)
        /\ LookupOutcome(r)

\* prepareWorkspace: const { accountId, accountArn } = await aws().getCurrentIdentity()
\* followed by createWorkspaceS3Bucket's derivation of s3BucketName.
GetCurrentIdentity ==
    /\ pc = "getCurrentIdentity"
    /\ UNCHANGED <<teardownVars, renderVars, widgetVars>>
    /\ Issue(Call("getCurrentIdentity", <<>>))
    /\ UNCHANGED <<remoteVars, workspaceId, healthy, roleType, attempts, roleArn,
                   s3BucketArn, workspaceRoleArn, workspaceArn, lookup, workspace,
                   lastErr, slept>>
    /\ \E a \in Answers :
        IF a = "ok"
        THEN /\ s3BucketName' = S3BucketName(workspaceId, AccountId, region)
             /\ Goto("createBucket")
        ELSE /\ UNCHANGED s3BucketName
             /\ Throw(RemoteFailure)


\* -------------------------------------------------------- createS3Bucket
\* Mutant of CreateBucketParams: the location constraint is always sent.
CreateBucketParamsWithConstraint(name, r) ==
    [Bucket |-> name, CreateBucketConfiguration |-> [LocationConstraint |-> r]]

\* createS3Bucket: params, with CreateBucketConfiguration unless the region
\* is us-east-1.
CreateBucketParams(name, r) ==
    IF r # "us-east-1"
    THEN [Bucket |-> name, CreateBucketConfiguration |-> [LocationConstraint |-> r]]
    ELSE [Bucket |-> name]

\* The storage service's answer to createBucket for a bucket the account
\* already owns: accepted in us-east-1, BucketAlreadyOwnedByYou elsewhere.
BucketAlreadyOwned(name) == name \in DOMAIN s3 /\ region # "us-east-1"

\* await aws().s3.createBucket(params)
CreateBucket ==
    /\ pc = "createBucket"
    /\ UNCHANGED <<teardownVars, renderVars, widgetVars>>
    /\ Issue(Call("createBucket", CreateBucketParams(s3BucketName, region)))
    /\ UNCHANGED <<region, tm, iamRoles, iamPolicies, localVars, slept>>
    /\ IF BucketAlreadyOwned(s3BucketName)
       THEN /\ UNCHANGED s3
            /\ Throw(Err("BucketAlreadyOwnedByYou", <<"bucket exists: ", s3BucketName>>))
       ELSE \E a \in Answers :
            IF a = "ok"
            THEN /\ s3' = IF s3BucketName \in DOMAIN s3 THEN s3
                          ELSE (s3BucketName :> NewBucket) @@ s3
                 /\ Goto("putBucketVersioning")
            ELSE /\ UNCHANGED s3
                 /\ Throw(RemoteFailure)

\* One awaited storage call that applies `setting` to bucket `name`; its
\* failure propagates.
PutBucketSetting(at, op, name, setting, next, nextName) ==
    /\ pc = at
    /\ UNCHANGED <<teardownVars, renderVars, widgetVars>>
    /\ Issue(Call(op, [Bucket |-> name]))
    /\ UNCHANGED <<region, tm, iamRoles, iamPolicies, workspaceId, healthy, roleType,
                   attempts, roleArn, s3BucketArn, workspaceRoleArn, workspaceArn,
                   lookup, workspace, lastErr, slept>>
    /\ \E a \in Answers :
        IF a = "ok"
        THEN /\ s3' = [s3 EXCEPT ![name].settings = @ \cup {setting}]
             /\ s3BucketName' = nextName
             /\ Goto(next)
        ELSE /\ UNCHANGED <<s3, s3BucketName>>
             /\ Throw(RemoteFailure)

\* The bucket createWorkspaceS3Bucket derives for the workspace.
PrimaryBucket == S3BucketName(workspaceId, AccountId, region)

PutBucketVersioning ==
    PutBucketSetting("putBucketVersioning", "putBucketVersioning", s3BucketName,
                     "versioning", "putBucketPolicy", s3BucketName)

PutBucketPolicy ==
    PutBucketSetting("putBucketPolicy", "putBucketPolicy", s3BucketName,
                     "denyInsecureTransport", "putPublicAccessBlock", s3BucketName)

PutPublicAccessBlock ==
    PutBucketSetting("putPublicAccessBlock", "putPublicAccessBlock", s3BucketName,
                     "publicAccessBlock", "putBucketEncryption", s3BucketName)

\* Mutant of AfterCreateS3Bucket: access logging is set up right after the
\* first bucket.
AfterCreateS3BucketNoCors(name) == "putBucketAcl"

\* createWorkspaceS3Bucket goes on with putBucketCors after
\* createS3Bucket(s3BucketName), with enableAccessLogging after
\* createS3Bucket(s3LoggingBucketName).
AfterCreateS3Bucket(name) ==
    IF name = PrimaryBucket THEN "putBucketCors" ELSE "putBucketAcl"

\* The last call of createS3Bucket.
PutBucketEncryption ==
    PutBucketSetting("putBucketEncryption", "putBucketEncryption", s3BucketName,
                     "encryption", AfterCreateS3Bucket(s3BucketName), s3BucketName)

\* createWorkspaceS3Bucket: putBucketCors on the workspace bucket, then
\* createS3Bucket(s3LoggingBucketName, region).
PutBucketCors ==
    PutBucketSetting("putBucketCors", "putBucketCors", s3BucketName, "cors",
                     "createBucket", S3LoggingBucketName(s3BucketName))

\* Mutant of ReturnsFalseOnError: putBucketLogging lets its error through.
ReturnsFalseOnErrorOfAclOnly(step) == step = "putBucketAcl"

\* try { await ... } catch (error) { return false; } around the call of
\* grantPermissionsToWriteLogs and around the one of putBucketLogging
ReturnsFalseOnError(step) == step \in {"putBucketAcl", "putBucketLogging"}

\* grantPermissionsToWriteLogs(targetBucketName): the failure is swallowed.
GrantPermissionsToWriteLogs ==
    /\ pc = "putBucketAcl"
    /\ UNCHANGED <<teardownVars, renderVars, widgetVars>>
    /\ Issue(Call("putBucketAcl", [Bucket |-> s3BucketName]))
    /\ UNCHANGED <<region, tm, iamRoles, iamPolicies, localVars, slept>>
    /\ \E a \in Answers :
        IF a = "ok" \/ ReturnsFalseOnError("putBucketAcl")
        THEN /\ s3' = IF a = "ok" THEN [s3 EXCEPT ![s3BucketName].acl = TRUE] ELSE s3
             /\ Goto("putBucketLogging")
        ELSE /\ UNCHANGED s3
             /\ Throw(RemoteFailure)

\* putBucketLogging(sourceBucketName, targetBucketName): the failure is
\* swallowed; createWorkspaceS3Bucket returns { s3BucketName, s3BucketArn },
\* prepareWorkspace makes policyParams, renders the workspace role's policy
\* and goes on to createRoleAndPolicy(..., 'WorkspaceRole', ...).
PutBucketLogging ==
    /\ pc = "putBucketLogging"
    /\ UNCHANGED <<teardownVars, widgetVars>>
    /\ Issue(Call("putBucketLogging",
                  [Bucket |-> PrimaryBucket,
                   TargetBucket |-> S3LoggingBucketName(PrimaryBucket)]))
    /\ UNCHANGED <<region, tm, iamRoles, iamPolicies, workspaceId, healthy,
                   s3BucketName, attempts, roleArn, workspaceRoleArn, workspaceArn,
                   lookup, workspace, lastErr, slept>>
    /\ \E a \in Answers :
        IF a = "ok" \/ ReturnsFalseOnError("putBucketLogging")
        THEN /\ s3' = IF a = "ok"
                      THEN [s3 EXCEPT ![PrimaryBucket].logging =
                                S3LoggingBucketName(PrimaryBucket)]
                      ELSE s3
             /\ s3BucketArn' = S3BucketArn(PrimaryBucket)
             /\ policyParams' = NewPolicyParams(s3BucketArn')
             /\ rolePolicy' = replaceTemplateVars(workspaceRolePolicyTemplate, policyParams')
             /\ roleAssumePolicy' = WORKSPACE_ROLE_ASSUME_POLICY
             /\ roleType' = "WorkspaceRole"
             /\ Goto("createRole")
        ELSE /\ UNCHANGED <<s3, s3BucketArn, roleType, renderVars>>
             /\ Throw(RemoteFailure)


\* ---------------------------------------------------- createRoleAndPolicy
\* roleName and policyName of the createRoleAndPolicy call in progress;
\* prepareWorkspace passes regionToAirportCode(region) as its region.
CurRoleName == RoleName(workspaceId, AccountId, regionToAirportCode(region), roleType)
CurPolicyName == PolicyName(workspaceId, AccountId, regionToAirportCode(region), roleType)

\* Answers of a creating identity call: "noArn" is a response without the
\* Role/Policy ARN.
CreateAnswers == IF healthy THEN {"ok"} ELSE {"ok", "noArn", "fail"}

\* The ARN a creating call's response carries.
ArnOfResponse(a, arn) == IF a = "ok" THEN arn ELSE Undefined

\* Mutant of RoleArnMissing: a response without the role's ARN is accepted.
RoleArnMissingNever(a) == FALSE

\* !createRoleResponse.Role || !createRoleResponse.Role.Arn
RoleArnMissing(a) == ArnOfResponse(a, "arn") = Undefined

\* !createPolicyResponse.Policy || !createPolicyResponse.Policy.Arn
PolicyArnMissing(a) == ArnOfResponse(a, "arn") = Undefined

\* const createRoleResponse = await aws().iam.createRole(...);
\* if (!createRoleResponse.Role || !createRoleResponse.Role.Arn) throw ...
CreateRole ==
    /\ pc = "createRole"
    /\ UNCHANGED <<teardownVars, renderVars, widgetVars>>
    /\ Issue(Call("createRole", [RoleName |-> CurRoleName, roleType |-> roleType,
                                 AssumeRolePolicyDocument |-> roleAssumePolicy]))
    /\ UNCHANGED <<region, tm, s3, iamPolicies, workspaceId, healthy, s3BucketName,
                   roleType, attempts, s3BucketArn, workspaceRoleArn, workspaceArn,
                   lookup, workspace, lastErr, slept>>
    /\ IF CurRoleName \in DOMAIN iamRoles
       THEN /\ UNCHANGED <<iamRoles, roleArn>>
            /\ Throw(Err("EntityAlreadyExistsException",
                         <<"Role already exists: ", CurRoleName>>))
       ELSE \E a \in CreateAnswers :
            IF a = "fail"
            THEN /\ UNCHANGED <<iamRoles, roleArn>>
                 /\ Throw(RemoteFailure)
            ELSE /\ iamRoles' = (CurRoleName :> NewRole) @@ iamRoles
                 /\ IF RoleArnMissing(a)
                    THEN /\ UNCHANGED roleArn
                         /\ Throw(Err("Error",
                                      <<"Failed to create role ", CurRoleName, ".">>))
                    ELSE /\ roleArn' = ArnOfResponse(a, RoleArnOf(CurRoleName))
                         /\ Goto("createPolicy")

\* const createPolicyResponse = await aws().iam.createPolicy(...);
\* if (!createPolicyResponse.Policy || !createPolicyResponse.Policy.Arn) throw ...
CreatePolicy ==
    /\ pc = "createPolicy"
    /\ UNCHANGED <<teardownVars, renderVars, widgetVars>>
    /\ Issue(Call("createPolicy", [PolicyName |-> CurPolicyName, roleType |-> roleType,
                                   PolicyDocument |-> rolePolicy]))
    /\ UNCHANGED <<region, tm, s3, iamRoles, localVars, slept>>
    /\ IF PolicyArnOf(CurPolicyName) \in iamPolicies
       THEN /\ UNCHANGED iamPolicies
            /\ Throw(Err("EntityAlreadyExistsException",
                         <<"Policy already exists: ", CurPolicyName>>))
       ELSE \E a \in CreateAnswers :
            IF a = "fail"
            THEN /\ UNCHANGED iamPolicies
                 /\ Throw(RemoteFailure)
            ELSE /\ iamPolicies' = iamPolicies \cup {PolicyArnOf(CurPolicyName)}
                 /\ IF PolicyArnMissing(a)
                    THEN Throw(Err("Error",
                                   <<"Failed to create policy for role ", roleArn, ".">>))
                    ELSE Goto("attachRolePolicy")

\* await aws().iam.attachRolePolicy(...); return roleArn.  prepareWorkspace
\* then enters retryWorkspaceCreation(..., 10) after the workspace role and
\* returns after the dashboard role, and createWorkspaceIfNotExists fetches
\* the workspace again.
AttachRolePolicy ==
    /\ pc = "attachRolePolicy"
    /\ UNCHANGED <<teardownVars, renderVars, widgetVars>>
    /\ Issue(Call("attachRolePolicy",
                  [RoleName |-> CurRoleName, PolicyArn |-> PolicyArnOf(CurPolicyName),
                   roleType |-> roleType]))
    /\ UNCHANGED <<region, tm, s3, iamPolicies, workspaceId, healthy, s3BucketName,
                   roleType, roleArn, s3BucketArn, workspaceArn, lookup, workspace,
                   lastErr, slept>>
    /\ \E a \in Answers :
        IF a = "ok"
        THEN /\ iamRoles' = [iamRoles EXCEPT ![CurRoleName].attached =
                                 @ \cup {PolicyArnOf(CurPolicyName)}]
             /\ IF roleType = "WorkspaceRole"
                THEN /\ workspaceRoleArn' = roleArn
                     /\ attempts' = MaxAttempts
                     /\ Goto("retryWorkspaceCreation")
                ELSE /\ UNCHANGED <<workspaceRoleArn, attempts>>
                     /\ Goto("getWorkspaceAfterPrepare")
        ELSE /\ UNCHANGED <<iamRoles, workspaceRoleArn, attempts>>
             /\ Throw(RemoteFailure)

\* ------------------------------------------------- retryWorkspaceCreation
\* Mutant of RetryLoopCondition: one iteration too many.
RetryLoopConditionOffByOne(a) == a >= 0

\* while (attempts > 0)
RetryLoopCondition(a) == a > 0

\* Mutants of IsPropagationError: every validation failure is retried; only
\* the role signature is retried.
IsPropagationErrorAnyValidation(err) == err.name = "ValidationException"
IsPropagationErrorRoleOnly(err) ==
    err.name = "ValidationException" /\ Includes(err.message, SigAssumeRole)

\* The catch's test: a ValidationException whose message includes one of
\* the two propagation signatures.
IsPropagationError(err) ==
    \/ (err.name = "ValidationException" /\ Includes(err.message, SigAssumeRole))
    \/ (err.name = "ValidationException" /\ Includes(err.message, SigAccessS3))

\* What the createWorkspace call can do: answer with the new workspace's arn,
\* and in a faulty service answer without an arn or throw.
CreateWorkspaceAnswers ==
    {[kind |-> "response", arn |-> WorkspaceArnOf(region, workspaceId)]}
    \cup (IF healthy THEN {}
          ELSE {[kind |-> "response", arn |-> Undefined]}
               \cup {[kind |-> "error", error |-> e] : e \in CreateWorkspaceErrors})

\* What the try block throws for an answer (NoError: nothing).
ThrownByAttempt(r) ==
    IF r.kind = "error" THEN r.error
    ELSE IF r.arn = Undefined THEN Err("Error", <<"Failed to create Workspace">>)
    ELSE NoError

\* Mutant of CreateWorkspaceRequest: the bucket created last is passed.
CreateWorkspaceRequestLastBucket ==
    [workspaceId |-> workspaceId, role |-> workspaceRoleArn,
     s3Location |-> S3BucketArn(s3BucketName)]

\* aws().tm.createWorkspace({ workspaceId, role: workspaceRoleArn,
\*                            s3Location: s3BucketArn })
CreateWorkspaceRequest ==
    [workspaceId |-> workspaceId, role |-> workspaceRoleArn, s3Location |-> s3BucketArn]

\* Mutant of WaitForPropagation: no wait once the attempts are used up.
WaitForPropagationWhileAttemptsLeft ==
    IF attempts' > 0 THEN Goto("delay") ELSE Goto("retryWorkspaceCreation")

\* console.log('Waiting for the newly created role to be propagated...');
\* await delay(2000), whatever the attempts left
WaitForPropagation == Goto("delay")

\* One iteration of the while loop up to its await of delay, or the throw
\* after the loop.
RetryWorkspaceCreation ==
    /\ pc = "retryWorkspaceCreation"
    /\ UNCHANGED <<teardownVars, widgetVars>>
    /\ UNCHANGED <<region, s3, iamRoles, iamPolicies, workspaceId, healthy,
                   s3BucketName, roleArn, s3BucketArn, workspaceRoleArn, lookup,
                   workspace, slept>>
    /\ IF RetryLoopCondition(attempts)
       THEN /\ attempts' = attempts - 1
            /\ Issue(Call("createWorkspace", CreateWorkspaceRequest))
            /\ \E r \in CreateWorkspaceAnswers :
                LET err == ThrownByAttempt(r) IN
                IF err = NoError
                THEN /\ tm' = (workspaceId :> r.arn) @@ tm
                     /\ workspaceArn' = r.arn
                     /\ policyParams' = ExtendPolicyParams(policyParams, workspaceArn')
                     /\ roleAssumePolicy' =
                            replaceTemplateVars(WORKSPACE_DASHBOARD_ROLE_ASSUME_POLICY,
                                                policyParams')
                     /\ rolePolicy' =
                            replaceTemplateVars(workspaceDashboardRolePolicyTemplate,
                                                policyParams')
                     /\ roleType' = "WorkspaceDashboardRole"
                     /\ UNCHANGED lastErr
                     /\ Goto("createRole")
                ELSE /\ UNCHANGED <<tm, workspaceArn, roleType, renderVars>>
                     /\ lastErr' = err
                     /\ IF IsPropagationError(err)
                        THEN WaitForPropagation
                        ELSE Throw(err)
       ELSE /\ UNCHANGED <<attempts, log, awaitVars, tm, workspaceArn, roleType, lastErr,
                           renderVars>>
            /\ Throw(Err("Error", <<"Retry exhausted">>))

\* await delay(2000); the catch block ends and the loop goes round
Delay ==
    /\ pc = "delay"
    /\ UNCHANGED <<teardownVars, renderVars, auxVars>>
    /\ slept' = slept + DelayMs
    /\ lastErr' = NoError
    /\ UNCHANGED <<remoteVars, workspaceId, healthy, s3BucketName, roleType, attempts,
                   roleArn, s3BucketArn, workspaceRoleArn, workspaceArn, lookup, workspace,
                   log>>
    /\ Goto("retryWorkspaceCreation")

\* workspace = await aws().tm.getWorkspace({ workspaceId }) after
\* prepareWorkspace; a failure of this call propagates as it is.
GetWorkspaceAfterPrepare ==
    /\ pc = "getWorkspaceAfterPrepare"
    /\ UNCHANGED <<teardownVars, renderVars, widgetVars>>
    /\ Issue(Call("getWorkspace", [workspaceId |-> workspaceId]))
    /\ UNCHANGED <<remoteVars, workspaceId, healthy, s3BucketName, roleType, attempts,
                   roleArn, s3BucketArn, workspaceRoleArn, workspaceArn, lookup,
                   lastErr, slept>>
    /\ \E r \in GetWorkspaceAnswers :
        IF r.kind = "record"
        THEN workspace' = r /\ ReturnWorkspace(r)
        ELSE UNCHANGED workspace /\ Throw(r.error)

\* Values of the variables of prepareWorkspace's documents, of the tile and
\* of the calls in flight where they play no part.
RenderIdle ==
    /\ policyParams = <<>>
    /\ roleAssumePolicy = Undefined
    /\ rolePolicy = Undefined
AuxIdle ==
    /\ readOnly = FALSE
    /\ removeable = FALSE
    /\ title = Undefined
    /\ visible = FALSE
    /\ gridEnabled = TRUE
    /\ onDeleteCalls = 0
    /\ inFlight = {}
    /\ suspended = FALSE

\* Values of the teardown variables while no teardown runs.
NoKey == 0
NoVersionId == -1
TeardownIdle ==
    /\ workspaceBucket = Undefined
    /\ nonDryRun = FALSE
    /\ site = Undefined
    /\ isTruncated = FALSE
    /\ NextContinuationToken = NoKey
    /\ NextVersionIdMarker = NoVersionId
    /\ NextKeyMarker = NoKey
    /\ todo = <<>>
    /\ reported = <<>>
    /\ pages = <<>>
    /\ roleName = Undefined

Init ==
    /\ TeardownIdle
    /\ region \in Regions
    /\ tm = <<>>
    /\ s3 = <<>>
    /\ iamRoles = <<>>
    /\ iamPolicies = {}
    /\ pc = "idle"
    /\ workspaceId \in WorkspaceIds
    /\ healthy = TRUE
    /\ s3BucketName = Undefined
    /\ roleType = Undefined
    /\ attempts = 0
    /\ roleArn = Undefined
    /\ s3BucketArn = Undefined
    /\ workspaceRoleArn = Undefined
    /\ workspaceArn = Undefined
    /\ lookup = NoAnswer
    /\ workspace = NoAnswer
    /\ lastErr = NoError
    /\ RenderIdle
    /\ AuxIdle
    /\ log = <<>>
    /\ slept = 0
    /\ runs = <<>>
    /\ history = <<>>

Next ==
    \/ Invoke
    \/ GetWorkspace
    \/ GetCurrentIdentity
    \/ CreateBucket
    \/ PutBucketVersioning
    \/ PutBucketPolicy
    \/ PutPublicAccessBlock
    \/ PutBucketEncryption
    \/ PutBucketCors
    \/ GrantPermissionsToWriteLogs
    \/ PutBucketLogging
    \/ CreateRole
    \/ CreatePolicy
    \/ AttachRolePolicy
    \/ RetryWorkspaceCreation
    \/ Delay
    \/ GetWorkspaceAfterPrepare

Spec == Init /\ [][Next]_vars


\* ================================================ deleteWorkspaceBucketAndLogs
\* An entry of a bucket: a version of an object or a delete marker.  The
\* version id 0 is the null version of a bucket without versioning.
Entry(k, v, m) == [Key |-> k, VersionId |-> v, IsDeleteMarker |-> m]
Min(a, b) == IF a < b THEN a ELSE b
MaxVersionId(es, k) ==
    LET ids == {e.VersionId : e \in {x \in es : x.Key = k}} IN
    IF ids = {} THEN 0 ELSE CHOOSE v \in ids : \A w \in ids : w <= v
\* The keys listObjectsV2 lists: those whose latest entry is no delete marker.
CurrentKeys(es) ==
    {e.Key : e \in {x \in es : x.VersionId = MaxVersionId(es, x.Key) /\ ~x.IsDeleteMarker}}

\* The keys in ascending order: the i-th one has i - 1 keys below it.
SortKeys(ks) ==
    [i \in 1..Cardinality(ks) |->
        CHOOSE k \in ks : Cardinality({x \in ks : x < k}) = i - 1]

\* listObjectVersions lists by key, and for one key from the newest version.
ListedBefore(e, f) ==
    e.Key < f.Key \/ (e.Key = f.Key /\ e.VersionId > f.VersionId)
SortEntries(es) ==
    [i \in 1..Cardinality(es) |->
        CHOOSE e \in es : Cardinality({x \in es : ListedBefore(x, e)}) = i - 1]

\* The storage service's answer to listObjectsV2 with a continuation token.
ListObjectsV2Response(es, token) ==
    LET rest == SortKeys({k \in CurrentKeys(es) : k > token})
        page == SubSeq(rest, 1, Min(PageSize, Len(rest)))
        more == Len(rest) > PageSize
    IN [Contents |-> page, IsTruncated |-> more,
        NextContinuationToken |-> IF more THEN page[Len(page)] ELSE NoKey]

\* The storage service's answer to listObjectVersions with its two markers.
ListObjectVersionsResponse(es, keyMarker, versionIdMarker) ==
    LET after == {e \in es : \/ e.Key > keyMarker
                             \/ (e.Key = keyMarker /\ e.VersionId < versionIdMarker)}
        rest == SortEntries(after)
        page == SubSeq(rest, 1, Min(PageSize, Len(rest)))
        more == Len(rest) > PageSize
    IN [Versions |-> SelectSeq(page, LAMBDA e : ~e.IsDeleteMarker),
        DeleteMarkers |-> SelectSeq(page, LAMBDA e : e.IsDeleteMarker),
        IsTruncated |-> more,
        NextKeyMarker |-> IF more THEN page[Len(page)].Key ELSE NoKey,
        NextVersionIdMarker |-> IF more THEN page[Len(page)].VersionId ELSE NoVersionId]

\* The effect of deleteObject({ Bucket, Key }): a delete marker becomes the
\* latest entry of the key in a bucket with versioning, the null version goes
\* in one without.
DeleteKey(bucket, k) ==
    IF "versioning" \in bucket.settings
    THEN [bucket EXCEPT !.entries = @ \cup {Entry(k, MaxVersionId(@, k) + 1, TRUE)}]
    ELSE [bucket EXCEPT !.entries = {e \in @ : e.Key # k}]
\* The effect of deleteObject({ Bucket, Key, VersionId })
DeleteVersion(bucket, k, v) ==
    [bucket EXCEPT !.entries = {e \in @ : ~(e.Key = k /\ e.VersionId = v)}]

NoSuchBucket == Err("NoSuchBucket", <<"The specified bucket does not exist">>)
\* getBucketLogging on a missing bucket: no NoSuchBucket instance, the message only
LoggingNoSuchBucket == Err("S3ServiceException", <<"The specified bucket does not exist">>)
BucketNotEmpty == Err("BucketNotEmpty", <<"The bucket you tried to delete is not empty">>)

bucketFrame == <<region, tm, iamRoles, iamPolicies, workspaceId, healthy, roleType,
                 attempts, roleArn, s3BucketArn, workspaceRoleArn, workspaceArn, lookup,
                 workspace, lastErr, slept, workspaceBucket, nonDryRun, roleName,
                 renderVars, widgetVars>>

\* deleteS3Bucket(name, nonDryRun) is entered from call site `at`.
EnterDeleteS3Bucket(name, at) ==
    /\ s3BucketName' = name
    /\ site' = at
    /\ isTruncated' = TRUE
    /\ NextContinuationToken' = NoKey
    /\ NextVersionIdMarker' = NoVersionId
    /\ NextKeyMarker' = NoKey
    /\ todo' = <<>>
    /\ Goto("listObjectsV2")

\* The invocation ends and only pc, runs and history change.
FinishTeardown(result) ==
    /\ UNCHANGED <<s3BucketName, site, isTruncated, NextContinuationToken,
                   NextVersionIdMarker, NextKeyMarker, todo>>
    /\ Finish(result)

\* deleteS3Bucket returns: to the workspace bucket's deletion after the
\* logging bucket, to the caller after the workspace bucket.
ReturnFromDeleteS3Bucket ==
    IF site = "logs"
    THEN EnterDeleteS3Bucket(workspaceBucket, "workspace")
    ELSE FinishTeardown([status |-> "ok"])

\* The two catch blocks of deleteWorkspaceBucketAndLogs.
\* Mutant of IsMissingLoggingBucket: the first catch swallows nothing.
IsMissingLoggingBucketNever(e) == FALSE
\* e.message.includes('The specified bucket does not exist')
IsMissingLoggingBucket(e) == Includes(e.message, "The specified bucket does not exist")
\* Mutant of IsNoSuchBucket: the second catch swallows every error.
IsNoSuchBucketAnyError(e) == TRUE
\* e instanceof NoSuchBucket
IsNoSuchBucket(e) == e.name = "NoSuchBucket"

\* A call of deleteS3Bucket, or getBucketLogging, throws e: the first catch
\* goes on to the workspace bucket for a missing bucket, the second one ends
\* quietly for NoSuchBucket; anything else reaches the caller.
Catch(e) ==
    IF site = "logs"
    THEN IF IsMissingLoggingBucket(e)
         THEN EnterDeleteS3Bucket(workspaceBucket, "workspace")
         ELSE FinishTeardown([status |-> "error", error |-> e])
    ELSE IF IsNoSuchBucket(e)
         THEN FinishTeardown([status |-> "ok"])
         ELSE FinishTeardown([status |-> "error", error |-> e])

\* Mutant of LoggingBucketOf: the name by the '-logs' convention.
LoggingBucketByConvention(name, TargetBucket) == S3LoggingBucketName(name)

\* `${bucketLoggingResp.LoggingEnabled.TargetBucket}`: the bucket torn down
\* before the bucket `name`
LoggingBucketOf(name, TargetBucket) == TargetBucket

\* bucketLoggingResp = await aws().s3.getBucketLogging({ Bucket: s3BucketName });
\* if (bucketLoggingResp.LoggingEnabled != undefined) deleteS3Bucket(TargetBucket)
GetBucketLogging ==
    /\ pc = "getBucketLogging"
    /\ Issue(Call("getBucketLogging", [Bucket |-> workspaceBucket]))
    /\ UNCHANGED <<bucketFrame, s3, reported, pages>>
    /\ IF workspaceBucket \notin DOMAIN s3
       THEN Catch(LoggingNoSuchBucket)
       ELSE \E a \in Answers :
            IF a = "fail" THEN Catch(RemoteFailure)
            ELSE IF s3[workspaceBucket].logging # Undefined
            THEN EnterDeleteS3Bucket(LoggingBucketOf(workspaceBucket,
                                                     s3[workspaceBucket].logging),
                                     "logs")
            ELSE EnterDeleteS3Bucket(workspaceBucket, "workspace")

\* deleteS3Bucket goes on to its await `label` with these values of its
\* local variables.
Step(label, truncated, token, versionIdMarker, keyMarker, rest) ==
    /\ isTruncated' = truncated
    /\ NextContinuationToken' = token
    /\ NextVersionIdMarker' = versionIdMarker
    /\ NextKeyMarker' = keyMarker
    /\ todo' = rest
    /\ UNCHANGED <<s3BucketName, site>>
    /\ Goto(label)

\* Mutant of AfterObjectsPage: the next request starts over without the token.
AfterObjectsPageWithoutToken(truncated, token) ==
    IF truncated
    THEN Step("listObjectsV2", truncated, NoKey, NextVersionIdMarker, NextKeyMarker, <<>>)
    ELSE Step("listObjectVersions", TRUE, token, NextVersionIdMarker, NextKeyMarker, <<>>)

\* After the for loop over a page of listObjectsV2: the while loop goes round
\* or the version loop starts (isTruncated = true).
AfterObjectsPage(truncated, token) ==
    IF truncated
    THEN Step("listObjectsV2", truncated, token, NextVersionIdMarker, NextKeyMarker, <<>>)
    ELSE Step("listObjectVersions", TRUE, token, NextVersionIdMarker, NextKeyMarker, <<>>)

\* Mutant of ShouldDelete: the delete calls are not gated.
ShouldDeleteAlways(commit) == TRUE

\* if (nonDryRun) await deleteObject(...), the guard of every delete call
ShouldDelete(commit) == commit

\* for (const obj of listObjectsResp.Contents): what the first loop goes over
ContentsOf(resp) == [i \in DOMAIN resp.Contents |-> [Key |-> resp.Contents[i]]]

\* Mutant of VersionsOf: the delete markers are left out.
VersionsOfWithoutMarkers(resp) == resp.Versions

\* for (const version of Versions) ..., for (const version of DeleteMarkers) ...:
\* what the two loops over a page of versions go over
VersionsOf(resp) == resp.Versions \o resp.DeleteMarkers

\* listObjectsResp = await aws().s3.listObjectsV2(...), and the for loop over
\* Contents up to its first await (none in a dry run).
ListObjectsV2 ==
    /\ pc = "listObjectsV2"
    /\ Issue(Call("listObjectsV2",
                  [Bucket |-> s3BucketName, ContinuationToken |-> NextContinuationToken]))
    /\ UNCHANGED <<bucketFrame, s3>>
    /\ IF s3BucketName \notin DOMAIN s3
       THEN UNCHANGED <<reported, pages>> /\ Catch(NoSuchBucket)
       ELSE \E a \in Answers :
            IF a = "fail" THEN UNCHANGED <<reported, pages>> /\ Catch(RemoteFailure)
            ELSE LET resp == ListObjectsV2Response(s3[s3BucketName].entries,
                                                    NextContinuationToken)
                     objs == ContentsOf(resp)
                 IN /\ pages' = Append(pages, [op |-> "listObjectsV2",
                                               Bucket |-> s3BucketName, resp |-> resp])
                    /\ IF ShouldDelete(nonDryRun) /\ objs # <<>>
                       THEN /\ UNCHANGED reported
                            /\ Step("deleteObject", resp.IsTruncated,
                                    resp.NextContinuationToken, NextVersionIdMarker,
                                    NextKeyMarker, objs)
                       ELSE /\ reported' = reported \o objs
                            /\ AfterObjectsPage(resp.IsTruncated,
                                                resp.NextContinuationToken)

\* await aws().s3.deleteObject({ Bucket, Key }) in the first for loop
DeleteObject ==
    /\ pc = "deleteObject"
    /\ Issue(Call("deleteObject", [Bucket |-> s3BucketName, Key |-> Head(todo).Key]))
    /\ UNCHANGED <<bucketFrame, pages>>
    /\ IF s3BucketName \notin DOMAIN s3
       THEN UNCHANGED <<s3, reported>> /\ Catch(NoSuchBucket)
       ELSE \E a \in Answers :
            IF a = "fail" THEN UNCHANGED <<s3, reported>> /\ Catch(RemoteFailure)
            ELSE /\ s3' = [s3 EXCEPT ![s3BucketName] = DeleteKey(@, Head(todo).Key)]
                 /\ reported' = Append(reported, Head(todo))
                 /\ IF Tail(todo) # <<>>
                    THEN Step("deleteObject", isTruncated, NextContinuationToken,
                              NextVersionIdMarker, NextKeyMarker, Tail(todo))
                    ELSE AfterObjectsPage(isTruncated, NextContinuationToken)

\* After the for loops over a page of listObjectVersions: the while loop goes
\* round, or if (nonDryRun) deleteBucket follows, or deleteS3Bucket returns.
AfterVersionsPage(truncated, versionIdMarker, keyMarker) ==
    IF truncated
    THEN Step("listObjectVersions", truncated, NextContinuationToken, versionIdMarker,
              keyMarker, <<>>)
    ELSE IF ShouldDelete(nonDryRun)
    THEN Step("deleteBucket", truncated, NextContinuationToken, versionIdMarker,
              keyMarker, <<>>)
    ELSE ReturnFromDeleteS3Bucket

\* listObjectVersionResp = await aws().s3.listObjectVersions(...), and the
\* for loops over Versions and DeleteMarkers up to their first await.
ListObjectVersions ==
    /\ pc = "listObjectVersions"
    /\ Issue(Call("listObjectVersions",
                  [Bucket |-> s3BucketName, VersionIdMarker |-> NextVersionIdMarker,
                   KeyMarker |-> NextKeyMarker]))
    /\ UNCHANGED <<bucketFrame, s3>>
    /\ IF s3BucketName \notin DOMAIN s3
       THEN UNCHANGED <<reported, pages>> /\ Catch(NoSuchBucket)
       ELSE \E a \in Answers :
            IF a = "fail" THEN UNCHANGED <<reported, pages>> /\ Catch(RemoteFailure)
            ELSE LET resp == ListObjectVersionsResponse(s3[s3BucketName].entries,
                                                         NextKeyMarker, NextVersionIdMarker)
                     page == VersionsOf(resp)
                 IN /\ pages' = Append(pages, [op |-> "listObjectVersions",
                                               Bucket |-> s3BucketName, resp |-> resp])
                    /\ IF ShouldDelete(nonDryRun) /\ page # <<>>
                       THEN /\ UNCHANGED reported
                            /\ Step("deleteObjectVersion", resp.IsTruncated,
                                    NextContinuationToken, resp.NextVersionIdMarker,
                                    resp.NextKeyMarker, page)
                       ELSE /\ reported' = reported \o page
                            /\ AfterVersionsPage(resp.IsTruncated,
                                                 resp.NextVersionIdMarker,
                                                 resp.NextKeyMarker)

\* await aws().s3.deleteObject({ Bucket, Key, VersionId }) in the for loops
\* over Versions and DeleteMarkers
DeleteObjectVersion ==
    /\ pc = "deleteObjectVersion"
    /\ Issue(Call("deleteObject",
                  [Bucket |-> s3BucketName, Key |-> Head(todo).Key,
                   VersionId |-> Head(todo).VersionId]))
    /\ UNCHANGED <<bucketFrame, pages>>
    /\ IF s3BucketName \notin DOMAIN s3
       THEN UNCHANGED <<s3, reported>> /\ Catch(NoSuchBucket)
       ELSE \E a \in Answers :
            IF a = "fail" THEN UNCHANGED <<s3, reported>> /\ Catch(RemoteFailure)
            ELSE /\ s3' = [s3 EXCEPT ![s3BucketName] =
                               DeleteVersion(@, Head(todo).Key, Head(todo).VersionId)]
                 /\ reported' = Append(reported, Head(todo))
                 /\ IF Tail(todo) # <<>>
                    THEN Step("deleteObjectVersion", isTruncated, NextContinuationToken,
                              NextVersionIdMarker, NextKeyMarker, Tail(todo))
                    ELSE AfterVersionsPage(isTruncated, NextVersionIdMarker, NextKeyMarker)

\* if (nonDryRun) await aws().s3.deleteBucket({ Bucket: s3BucketName })
DeleteBucket ==
    /\ pc = "deleteBucket"
    /\ Issue(Call("deleteBucket", [Bucket |-> s3BucketName]))
    /\ UNCHANGED <<bucketFrame, reported, pages>>
    /\ IF s3BucketName \notin DOMAIN s3
       THEN UNCHANGED s3 /\ Catch(NoSuchBucket)
       ELSE IF s3[s3BucketName].entries # {}
       THEN UNCHANGED s3 /\ Catch(BucketNotEmpty)
       ELSE \E a \in Answers :
            IF a = "fail" THEN UNCHANGED s3 /\ Catch(RemoteFailure)
            ELSE /\ s3' = [b \in DOMAIN s3 \ {s3BucketName} |-> s3[b]]
                 /\ ReturnFromDeleteS3Bucket

\* ---- the buckets a teardown may find
TeardownBucket == S3BucketName("w1", AccountId, "us-east-1")
LogTargets == {S3LoggingBucketName(TeardownBucket), "audit-logs"}
\* Per key: nothing, one version, two versions, a version under a delete marker.
KeyHistory(k, h) ==
    CASE h = 0 -> {}
      [] h = 1 -> {Entry(k, 1, FALSE)}
      [] h = 2 -> {Entry(k, 1, FALSE), Entry(k, 2, FALSE)}
      [] h = 3 -> {Entry(k, 1, FALSE), Entry(k, 2, TRUE)}
VersionedContents ==
    {UNION {KeyHistory(k, f[k]) : k \in 1..MaxKeys} : f \in [1..MaxKeys -> 0..3]}
UnversionedContents ==
    {{Entry(k, 0, FALSE) : k \in ks} : ks \in SUBSET (1..MaxKeys)}
LogContents == {{Entry(k, 1, FALSE) : k \in 1..n} : n \in 0..MaxKeys}
WorkspaceBuckets ==
    {[settings |-> {"versioning"}, logging |-> t, acl |-> FALSE, entries |-> es] :
        t \in LogTargets \cup {Undefined}, es \in VersionedContents}
    \cup {[settings |-> {}, logging |-> t, acl |-> FALSE, entries |-> es] :
        t \in LogTargets \cup {Undefined}, es \in UnversionedContents}
LogBuckets ==
    {[settings |-> {"versioning"}, logging |-> Undefined, acl |-> TRUE, entries |-> es] :
        es \in LogContents}
\* The storage service when a teardown starts: the workspace bucket may be
\* gone; if it is there, its logging target, if any, may be gone as well.
TeardownStores ==
    {<<>>}
    \cup {(TeardownBucket :> w) : w \in WorkspaceBuckets}
    \cup {(TeardownBucket :> w) @@ (w.logging :> l) :
            w \in {x \in WorkspaceBuckets : x.logging # Undefined}, l \in LogBuckets}

InitBucketTeardown ==
    /\ region = "us-east-1"
    /\ tm = <<>>
    /\ s3 \in TeardownStores
    /\ iamRoles = <<>>
    /\ iamPolicies = {}
    /\ pc = "getBucketLogging"
    /\ workspaceId = "w1"
    /\ healthy \in BOOLEAN
    /\ s3BucketName = Undefined
    /\ roleType = Undefined
    /\ attempts = 0
    /\ roleArn = Undefined
    /\ s3BucketArn = Undefined
    /\ workspaceRoleArn = Undefined
    /\ workspaceArn = Undefined
    /\ lookup = NoAnswer
    /\ workspace = NoAnswer
    /\ lastErr = NoError
    /\ RenderIdle
    /\ AuxIdle
    /\ workspaceBucket = TeardownBucket
    /\ nonDryRun \in BOOLEAN
    /\ site = "logs"
    /\ isTruncated = FALSE
    /\ NextContinuationToken = NoKey
    /\ NextVersionIdMarker = NoVersionId
    /\ NextKeyMarker = NoKey
    /\ todo = <<>>
    /\ reported = <<>>
    /\ pages = <<>>
    /\ roleName = Undefined
    /\ log = <<>>
    /\ slept = 0
    /\ runs = <<>>
    /\ history = <<>>

NextBucketTeardown ==
    \/ GetBucketLogging
    \/ ListObjectsV2
    \/ DeleteObject
    \/ ListObjectVersions
    \/ DeleteObjectVersion
    \/ DeleteBucket

SpecBucketTeardown == InitBucketTeardown /\ [][NextBucketTeardown]_vars

\* Every awaited call of the invocation is answered and the function then
\* runs on to its next await.
SpecBucketTeardownFair ==
    InitBucketTeardown /\ [][NextBucketTeardown]_vars /\ WF_vars(NextBucketTeardown)

\* ===================================================== deleteIAMroleAndPolicy
\* The names of what a role is associated with.
ProfileName(i) == "profile-" \o ToString(i)
InlinePolicyName(i) == "inline-" \o ToString(i)
ManagedPolicyArn(i) == PolicyArnOf("managed-" \o ToString(i))

NoSuchEntity == Err("NoSuchEntityException", <<"The role cannot be found">>)
DeleteConflict ==
    Err("DeleteConflictException", <<"Cannot delete entity, must detach all first">>)

\* The identity service's answer to a list call without Marker: the first
\* MaxItems of the items, in the order of their numbers.
ListPage(items, names) ==
    LET all == SelectSeq(names, LAMBDA n : n \in items)
    IN [Items |-> SubSeq(all, 1, Min(MaxItems, Len(all))),
        IsTruncated |-> Len(all) > MaxItems]

roleFrame == <<region, tm, s3, workspaceId, healthy, s3BucketName, roleType, attempts,
               roleArn, s3BucketArn, workspaceRoleArn, workspaceArn, lookup, workspace,
               lastErr, slept, workspaceBucket, nonDryRun, site, isTruncated,
               NextContinuationToken, NextVersionIdMarker, NextKeyMarker, roleName,
               renderVars, widgetVars>>

\* Mutant of AfterLoop: the managed policies are dealt with before the
\* inline ones.
AfterLoopManagedFirst(loop) ==
    CASE loop = "removeRoleFromInstanceProfile" -> "listAttachedRolePolicies"
      [] loop = "deletePolicy" -> "listRolePolicies"
      [] loop = "deleteRolePolicy" -> "deleteRole"

\* The statement after each of the three for loops.
AfterLoop(loop) ==
    CASE loop = "removeRoleFromInstanceProfile" -> "listRolePolicies"
      [] loop = "deleteRolePolicy" -> "listAttachedRolePolicies"
      [] loop = "deletePolicy" -> "deleteRole"

\* Mutant of RoleCallFails: the failure is swallowed and the role is deleted.
RoleCallFailsSwallowed(e) ==
    /\ UNCHANGED <<iamRoles, iamPolicies, todo, reported, pages>>
    /\ Goto("deleteRole")

\* A call of the identity service about the role throws e, which nothing
\* in deleteIAMroleAndPolicy catches.
RoleCallFails(e) ==
    /\ UNCHANGED <<iamRoles, iamPolicies, todo, reported, pages>>
    /\ Throw(e)

\* A list call answers with `resp`: the for loop over its items starts at
\* `first`, or is skipped when there is none.
Listed(op, resp, first, loop) ==
    /\ pages' = Append(pages, [op |-> op, resp |-> resp])
    /\ todo' = resp.Items
    /\ UNCHANGED <<iamRoles, iamPolicies, reported>>
    /\ Goto(IF resp.Items # <<>> THEN first ELSE AfterLoop(loop))

\* One of the three list calls, each with { RoleName: roleName }.
ListForRole(op, field, names, first, loop) ==
    /\ pc = op
    /\ Issue(Call(op, [RoleName |-> roleName]))
    /\ UNCHANGED roleFrame
    /\ IF roleName \notin DOMAIN iamRoles
       THEN RoleCallFails(NoSuchEntity)
       ELSE \E a \in Answers :
            IF a = "fail" THEN RoleCallFails(RemoteFailure)
            ELSE Listed(op, ListPage(iamRoles[roleName][field], names), first, loop)

\* const instanceProfileResp = await aws().iam.listInstanceProfilesForRole(...)
ListInstanceProfilesForRole ==
    ListForRole("listInstanceProfilesForRole", "profiles",
                [i \in 1..MaxAssociations |-> ProfileName(i)],
                "removeRoleFromInstanceProfile", "removeRoleFromInstanceProfile")

\* const rolePolicies = await aws().iam.listRolePolicies(...)
ListRolePolicies ==
    ListForRole("listRolePolicies", "inline",
                [i \in 1..MaxAssociations |-> InlinePolicyName(i)],
                "deleteRolePolicy", "deleteRolePolicy")

\* const attachedRolePolicies = await aws().iam.listAttachedRolePolicies(...)
ListAttachedRolePolicies ==
    ListForRole("listAttachedRolePolicies", "attached",
                [i \in 1..MaxAssociations |-> ManagedPolicyArn(i)],
                "detachRolePolicy", "deletePolicy")

\* The last call of a loop's body answered: the next item, or the statement
\* after the loop.
NextItem(loop, first) ==
    /\ todo' = Tail(todo)
    /\ reported' = Append(reported, Head(todo))
    /\ Goto(IF Tail(todo) # <<>> THEN first ELSE AfterLoop(loop))

\* await aws().iam.removeRoleFromInstanceProfile({ RoleName, InstanceProfileName })
RemoveRoleFromInstanceProfile ==
    /\ pc = "removeRoleFromInstanceProfile"
    /\ Issue(Call("removeRoleFromInstanceProfile",
                  [RoleName |-> roleName, InstanceProfileName |-> Head(todo)]))
    /\ UNCHANGED roleFrame
    /\ IF roleName \notin DOMAIN iamRoles \/ Head(todo) \notin iamRoles[roleName].profiles
       THEN RoleCallFails(NoSuchEntity)
       ELSE \E a \in Answers :
            IF a = "fail" THEN RoleCallFails(RemoteFailure)
            ELSE /\ iamRoles' = [iamRoles EXCEPT ![roleName].profiles = @ \ {Head(todo)}]
                 /\ UNCHANGED <<iamPolicies, pages>>
                 /\ NextItem("removeRoleFromInstanceProfile",
                             "removeRoleFromInstanceProfile")

\* await aws().iam.deleteRolePolicy({ RoleName: roleName, PolicyName: policy })
DeleteRolePolicy ==
    /\ pc = "deleteRolePolicy"
    /\ Issue(Call("deleteRolePolicy", [RoleName |-> roleName, PolicyName |-> Head(todo)]))
    /\ UNCHANGED roleFrame
    /\ IF roleName \notin DOMAIN iamRoles \/ Head(todo) \notin iamRoles[roleName].inline
       THEN RoleCallFails(NoSuchEntity)
       ELSE \E a \in Answers :
            IF a = "fail" THEN RoleCallFails(RemoteFailure)
            ELSE /\ iamRoles' = [iamRoles EXCEPT ![roleName].inline = @ \ {Head(todo)}]
                 /\ UNCHANGED <<iamPolicies, pages>>
                 /\ NextItem("deleteRolePolicy", "deleteRolePolicy")

\* await aws().iam.detachRolePolicy({ RoleName: roleName, PolicyArn })
DetachRolePolicy ==
    /\ pc = "detachRolePolicy"
    /\ Issue(Call("detachRolePolicy", [RoleName |-> roleName, PolicyArn |-> Head(todo)]))
    /\ UNCHANGED roleFrame
    /\ IF roleName \notin DOMAIN iamRoles \/ Head(todo) \notin iamRoles[roleName].attached
       THEN RoleCallFails(NoSuchEntity)
       ELSE \E a \in Answers :
            IF a = "fail" THEN RoleCallFails(RemoteFailure)
            ELSE /\ iamRoles' = [iamRoles EXCEPT ![roleName].attached = @ \ {Head(todo)}]
                 /\ UNCHANGED <<iamPolicies, pages, todo, reported>>
                 /\ Goto("deletePolicy")

\* await aws().iam.deletePolicy({ PolicyArn }): the identity service refuses
\* while any role has the policy attached.
DeletePolicy ==
    /\ pc = "deletePolicy"
    /\ Issue(Call("deletePolicy", [PolicyArn |-> Head(todo)]))
    /\ UNCHANGED roleFrame
    /\ IF Head(todo) \notin iamPolicies
       THEN RoleCallFails(NoSuchEntity)
       ELSE IF \E r \in DOMAIN iamRoles : Head(todo) \in iamRoles[r].attached
       THEN RoleCallFails(DeleteConflict)
       ELSE \E a \in Answers :
            IF a = "fail" THEN RoleCallFails(RemoteFailure)
            ELSE /\ iamPolicies' = iamPolicies \ {Head(todo)}
                 /\ UNCHANGED <<iamRoles, pages>>
                 /\ NextItem("deletePolicy", "detachRolePolicy")

\* await aws().iam.deleteRole({ RoleName: roleName }): the identity service
\* refuses while the role has a profile, an inline or an attached policy.
DeleteRole ==
    /\ pc = "deleteRole"
    /\ Issue(Call("deleteRole", [RoleName |-> roleName]))
    /\ UNCHANGED roleFrame
    /\ IF roleName \notin DOMAIN iamRoles
       THEN RoleCallFails(NoSuchEntity)
       ELSE IF iamRoles[roleName] # NewRole
       THEN RoleCallFails(DeleteConflict)
       ELSE \E a \in Answers :
            IF a = "fail" THEN RoleCallFails(RemoteFailure)
            ELSE /\ iamRoles' = [r \in DOMAIN iamRoles \ {roleName} |-> iamRoles[r]]
                 /\ UNCHANGED <<iamPolicies, pages, todo>>
                 /\ reported' = Append(reported, roleName)
                 /\ Finish([status |-> "ok"])

\* ---- the roles a teardown may find
TeardownRole == RoleName("w1", AccountId, "iad", "WorkspaceRole")
OtherRole == "other-role"
TeardownRoles ==
    {[profiles |-> {ProfileName(i) : i \in 1..p},
      inline |-> {InlinePolicyName(i) : i \in 1..n},
      attached |-> {ManagedPolicyArn(i) : i \in 1..m}] :
        p \in 0..MaxAssociations, n \in 0..MaxAssociations, m \in 0..MaxAssociations}
\* The identity service when a teardown starts: the role may be gone, and
\* another role may have the first managed policy attached as well.
TeardownIdentities ==
    {<<>>}
    \cup {(TeardownRole :> r) : r \in TeardownRoles}
    \cup {(TeardownRole :> r) @@ (OtherRole :> [NewRole EXCEPT !.attached = {ManagedPolicyArn(1)}]) :
            r \in {x \in TeardownRoles : x.attached # {}}}

InitRoleTeardown ==
    /\ region = "us-east-1"
    /\ tm = <<>>
    /\ s3 = <<>>
    /\ iamRoles \in TeardownIdentities
    /\ iamPolicies = UNION {iamRoles[r].attached : r \in DOMAIN iamRoles}
    /\ pc = "listInstanceProfilesForRole"
    /\ workspaceId = "w1"
    /\ healthy \in BOOLEAN
    /\ s3BucketName = Undefined
    /\ roleType = Undefined
    /\ attempts = 0
    /\ roleArn = Undefined
    /\ s3BucketArn = Undefined
    /\ workspaceRoleArn = Undefined
    /\ workspaceArn = Undefined
    /\ lookup = NoAnswer
    /\ workspace = NoAnswer
    /\ lastErr = NoError
    /\ RenderIdle
    /\ AuxIdle
    /\ workspaceBucket = Undefined
    /\ nonDryRun = FALSE
    /\ site = Undefined
    /\ isTruncated = FALSE
    /\ NextContinuationToken = NoKey
    /\ NextVersionIdMarker = NoVersionId
    /\ NextKeyMarker = NoKey
    /\ todo = <<>>
    /\ reported = <<>>
    /\ pages = <<>>
    /\ roleName = TeardownRole
    /\ log = <<>>
    /\ slept = 0
    /\ runs = <<>>
    /\ history = <<>>

NextRoleTeardown ==
    \/ ListInstanceProfilesForRole
    \/ RemoveRoleFromInstanceProfile
    \/ ListRolePolicies
    \/ DeleteRolePolicy
    \/ ListAttachedRolePolicies
    \/ DetachRolePolicy
    \/ DeletePolicy
    \/ DeleteRole

SpecRoleTeardown == InitRoleTeardown /\ [][NextRoleTeardown]_vars

\* ============================================================ deleteWorkspace
\* The caller invokes deleteWorkspace(workspaceId, nonDryRun) once no
\* invocation is running.
InvokeDeleteWorkspace ==
    /\ pc = "idle"
    /\ Len(runs) < MaxRuns
    /\ workspaceId' \in WorkspaceIds
    /\ nonDryRun' \in BOOLEAN
    /\ healthy' \in BOOLEAN
    /\ pc' = "deleteWorkspace"
    /\ log' = <<>>
    /\ lookup' = NoAnswer
    /\ UNCHANGED <<remoteVars, s3BucketName, roleType, attempts, roleArn, s3BucketArn,
                   workspaceRoleArn, workspaceArn, workspace, lastErr, workspaceBucket, site,
                   isTruncated, NextContinuationToken, NextVersionIdMarker,
                   NextKeyMarker, todo, reported, pages, roleName, slept, runs,
                   history, renderVars, auxVars>>

\* What the managed-workspace service answers to deleteWorkspace.
DeleteWorkspaceAnswers ==
    IF workspaceId \notin DOMAIN tm
    THEN {[kind |-> "error",
           error |-> Err("ResourceNotFoundException", <<"Workspace not found">>)]}
    ELSE {[kind |-> "ok"]}
         \cup (IF healthy THEN {} ELSE {[kind |-> "error", error |-> RemoteFailure]})

\* Mutant of CommitsDeletion: the call is not gated.
CommitsDeletionAlways(commit) == TRUE

\* if (nonDryRun)
CommitsDeletion(commit) == commit

\* try { if (nonDryRun) await aws().tm.deleteWorkspace({ workspaceId });
\* console.log(...) } catch (err) { console.log(...); throw err; }
DeleteWorkspace ==
    /\ pc = "deleteWorkspace"
    /\ UNCHANGED <<region, s3, iamRoles, iamPolicies, workspaceId, healthy,
                   s3BucketName, roleType, attempts, roleArn, s3BucketArn,
                   workspaceRoleArn, workspaceArn, workspace, lastErr, workspaceBucket,
                   nonDryRun,
                   site, isTruncated, NextContinuationToken, NextVersionIdMarker,
                   NextKeyMarker, todo, pages, roleName, slept, renderVars, widgetVars>>
    /\ IF CommitsDeletion(nonDryRun)
       THEN /\ Issue(Call("deleteWorkspace", [workspaceId |-> workspaceId]))
            /\ \E r \in DeleteWorkspaceAnswers :
                /\ lookup' = r
                /\ IF r.kind = "ok"
                   THEN /\ tm' = [w \in DOMAIN tm \ {workspaceId} |-> tm[w]]
                        /\ reported' = Append(reported, workspaceId)
                        /\ Finish([status |-> "ok"])
                   ELSE /\ UNCHANGED <<tm, reported>>
                        /\ Throw(r.error)
       ELSE /\ UNCHANGED <<log, lookup, tm, awaitVars>>
            /\ reported' = Append(reported, workspaceId)
            /\ Finish([status |-> "ok"])

\* The workspaces a teardown may find.
TeardownWorkspaces ==
    {[w \in ws |-> WorkspaceArnOf("us-east-1", w)] : ws \in SUBSET WorkspaceIds}

InitWorkspaceTeardown ==
    /\ region = "us-east-1"
    /\ tm \in TeardownWorkspaces
    /\ s3 = <<>>
    /\ iamRoles = <<>>
    /\ iamPolicies = {}
    /\ pc = "idle"
    /\ workspaceId = "w1"
    /\ healthy = TRUE
    /\ s3BucketName = Undefined
    /\ roleType = Undefined
    /\ attempts = 0
    /\ roleArn = Undefined
    /\ s3BucketArn = Undefined
    /\ workspaceRoleArn = Undefined
    /\ workspaceArn = Undefined
    /\ lookup = NoAnswer
    /\ workspace = NoAnswer
    /\ lastErr = NoError
    /\ RenderIdle
    /\ AuxIdle
    /\ TeardownIdle
    /\ log = <<>>
    /\ slept = 0
    /\ runs = <<>>
    /\ history = <<>>

NextWorkspaceTeardown ==
    \/ InvokeDeleteWorkspace
    \/ DeleteWorkspace

SpecWorkspaceTeardown == InitWorkspaceTeardown /\ [][NextWorkspaceTeardown]_vars

\* ================================================================ claims
Last(q) == q[Len(q)]
NumCalls(calls, op) == Len(SelectSeq(calls, LAMBDA c : c.op = op))
OpsOf(calls) == [i \in DOMAIN calls |-> calls[i].op]
Failed(run) == run.result.status = "error"
Succeeded(run) == run.result.status = "ok"
RetryExhausted == Err("Error", <<"Retry exhausted">>)
\* The places of createWorkspaceIfNotExists after retryWorkspaceCreation returned.
AfterRetry == {"createRole", "createPolicy", "attachRolePolicy", "getWorkspaceAfterPrepare"}
\* The two propagation signatures, as the claims state them.
HasPropagationSignature(e) ==
    /\ e.name = "ValidationException"
    /\ \/ Includes(e.message, "Could not assume the role provided")
       \/ Includes(e.message, "Could not access S3 with the role provided")
AnsweredNotFound(a) == a.kind = "error" /\ a.error.name = "ResourceNotFoundException"

\* C1: retryWorkspaceCreation issues at most 10 createWorkspace calls; when 9
\* attempts failed with a propagation signature and the 10th succeeds the
\* workspace ARN is returned; when 10 attempts failed that way the invocation
\* ends with 'Retry exhausted' after exactly 10 calls.
RetryBound ==
    /\ NumCalls(log, "createWorkspace") <= 10
    /\ (pc \in AfterRetry /\ slept = 9 * 2000)
          => /\ NumCalls(log, "createWorkspace") = 10
             /\ workspaceArn = WorkspaceArnOf(region, workspaceId)
    /\ \A i \in DOMAIN runs :
          /\ runs[i].slept = 10 * 2000
                => /\ runs[i].result = [status |-> "error", error |-> RetryExhausted]
                   /\ NumCalls(runs[i].calls, "createWorkspace") = 10
                   /\ Last(runs[i].calls).op = "createWorkspace"
          /\ (Failed(runs[i]) /\ runs[i].result.error = RetryExhausted)
                => runs[i].slept = 10 * 2000

\* C1 witness: an invocation ended with 'Retry exhausted' after 10 calls.
RetryBoundWitness ==
    \E i \in DOMAIN runs :
        /\ Failed(runs[i])
        /\ runs[i].result.error = RetryExhausted
        /\ NumCalls(runs[i].calls, "createWorkspace") = 10

\* C2: an attempt that fails with anything but a propagation signature ends
\* the invocation with that failure: the failed createWorkspace call is its
\* last call and no delay follows it, whatever the attempts left.
NonRetriedErrorsPropagate ==
    (lastErr # NoError /\ ~HasPropagationSignature(lastErr))
        => /\ pc = "idle"
           /\ runs # <<>>
           /\ Last(runs).result = [status |-> "error", error |-> lastErr]
           /\ Last(Last(runs).calls).op = "createWorkspace"
           /\ Last(runs).slept = 2000 * (NumCalls(Last(runs).calls, "createWorkspace") - 1)

\* C2 witness: a validation failure with an unrelated message ended the
\* invocation while attempts were left, after an earlier retry.
NonRetriedErrorsWitness ==
    /\ pc = "idle"
    /\ lastErr = Err("ValidationException", <<"Invalid workspaceId">>)
    /\ attempts > 0
    /\ slept > 0

\* C3: a failed attempt is followed by a 2000 ms sleep, and by another
\* createWorkspace call while attempts remain, exactly when the failure is a
\* validation failure carrying one of the two signatures.
RetryEligibility ==
    [][ /\ (pc = "retryWorkspaceCreation" /\ lastErr' # NoError)
            => ((pc' = "delay") <=> HasPropagationSignature(lastErr'))
        /\ (pc' = "delay" /\ pc # "delay")
            => (pc = "retryWorkspaceCreation" /\ lastErr' # NoError)
        /\ (pc = "delay")
            => (slept' = slept + 2000 /\ pc' = "retryWorkspaceCreation" /\ log' = log)
        /\ (pc # "delay" /\ pc # "idle") => slept' = slept
        /\ (pc = "retryWorkspaceCreation" /\ attempts > 0)
            => /\ Len(log') = Len(log) + 1
               /\ Last(log').op = "createWorkspace"
        /\ (pc = "retryWorkspaceCreation" /\ attempts <= 0)
            => (log' = log /\ pc' = "idle")
      ]_vars

\* C3 witness: the sleep that follows an S3-signature failure, after an
\* earlier sleep.
RetryEligibilityWitness ==
    /\ pc = "delay"
    /\ Includes(lastErr.message, SigAccessS3)
    /\ slept > 0

\* C4: an invocation whose getWorkspace finds the workspace issues no other
\* call and returns the id and the arn found; of two successful invocations
\* the later one finds the workspace, issues no provisioning call and returns
\* the same arn.
IdempotentCreate ==
    /\ lookup.kind = "record" => pc = "idle"
    /\ \A i \in DOMAIN runs :
          runs[i].lookup.kind = "record"
             => /\ OpsOf(runs[i].calls) = <<"getWorkspace">>
                /\ runs[i].lookup.workspaceId = workspaceId
                      => runs[i].result = [status |-> "ok", workspaceId |-> workspaceId,
                                           workspaceArn |-> runs[i].lookup.arn]
    /\ \A i, j \in DOMAIN runs :
          (i < j /\ Succeeded(runs[i]) /\ Succeeded(runs[j]))
             => /\ (runs[i].healthy /\ runs[j].healthy)
                      => runs[j].result.workspaceArn = runs[i].result.workspaceArn
                /\ OpsOf(runs[j].calls) = <<"getWorkspace">>

\* C4 witness: a first invocation provisioned, a second one found the workspace.
IdempotentCreateWitness ==
    /\ Len(runs) >= 2
    /\ Succeeded(runs[1]) /\ Succeeded(runs[2])
    /\ NumCalls(runs[1].calls, "createBucket") = 2
    /\ runs[2].lookup.kind = "record"

\* C5: after an invocation failed partway, having issued provisioning calls
\* and left no workspace, a later invocation against healthy services returns
\* the workspace's arn.
RerunAfterPartialFailure ==
    \A j \in DOMAIN runs :
        (/\ j > 1
         /\ Failed(runs[j - 1])
         /\ NumCalls(runs[j - 1].calls, "createBucket") >= 1
         /\ AnsweredNotFound(runs[j].lookup)
         /\ runs[j].healthy)
            => /\ Succeeded(runs[j])
               /\ runs[j].result.workspaceArn = WorkspaceArnOf(region, workspaceId)

\* C6: prepareWorkspace runs exactly when the first getWorkspace fails with
\* ResourceNotFoundException; any other failure of it reaches the caller with
\* no further call issued.
LookupBranching ==
    /\ (Len(log) > 1 \/ pc \notin {"idle", "getWorkspace"}) => AnsweredNotFound(lookup)
    /\ \A i \in DOMAIN runs :
          /\ AnsweredNotFound(runs[i].lookup)
                <=> (Len(runs[i].calls) > 1 /\ runs[i].calls[2].op = "getCurrentIdentity")
          /\ (runs[i].lookup.kind = "error" /\ ~AnsweredNotFound(runs[i].lookup))
                => /\ OpsOf(runs[i].calls) = <<"getWorkspace">>
                   /\ Failed(runs[i])
                   /\ Includes(runs[i].result.error.message, "Failed to get workspace. ")

\* C6 witness: one invocation ended on a fatal lookup failure, another one
\* provisioned after a not-found answer.
LookupBranchingWitness ==
    \E i, j \in DOMAIN runs :
        /\ runs[i].lookup.kind = "error" /\ ~AnsweredNotFound(runs[i].lookup)
        /\ AnsweredNotFound(runs[j].lookup) /\ NumCalls(runs[j].calls, "createRole") = 2


\* What a logged call is about: its bucket, or the kind of its role.
TargetOf(c) ==
    CASE c.op \in {"createBucket", "putBucketVersioning", "putBucketPolicy",
                   "putPublicAccessBlock", "putBucketEncryption", "putBucketCors",
                   "putBucketAcl", "putBucketLogging"} -> c.args.Bucket
      [] c.op \in {"createRole", "createPolicy", "attachRolePolicy"} -> c.args.roleType
      [] OTHER -> ""
KeysOf(calls) == [i \in DOMAIN calls |-> <<calls[i].op, TargetOf(calls[i])>>]
\* A sequence without the immediate repetitions of createWorkspace.
RECURSIVE Squash(_)
Squash(q) ==
    IF Len(q) <= 1 THEN q
    ELSE IF q[1] = q[2] /\ q[1][1] = "createWorkspace" THEN Squash(Tail(q))
    ELSE <<q[1]>> \o Squash(Tail(q))
IsPrefix(a, b) == Len(a) <= Len(b) /\ \A i \in DOMAIN a : a[i] = b[i]
\* The names the claims derive for the workspace of this behaviour.
WorkspaceBucketName == S3BucketName(workspaceId, AccountId, region)
LogsBucketName == WorkspaceBucketName \o "-logs"
WorkspaceRoleName ==
    RoleName(workspaceId, AccountId, regionToAirportCode(region), "WorkspaceRole")
\* The remote calls of a complete run, in the order of the provisioning states.
SecuredBucketCalls(b) ==
    << <<"createBucket", b>>, <<"putBucketVersioning", b>>, <<"putBucketPolicy", b>>,
       <<"putPublicAccessBlock", b>>, <<"putBucketEncryption", b>> >>
RoleCalls(rt) == << <<"createRole", rt>>, <<"createPolicy", rt>>, <<"attachRolePolicy", rt>> >>
ProvisioningOrder ==
    << <<"getWorkspace", "">>, <<"getCurrentIdentity", "">> >>
    \o SecuredBucketCalls(WorkspaceBucketName)
    \o << <<"putBucketCors", WorkspaceBucketName>> >>
    \o SecuredBucketCalls(LogsBucketName)
    \o << <<"putBucketAcl", LogsBucketName>>, <<"putBucketLogging", WorkspaceBucketName>> >>
    \o RoleCalls("WorkspaceRole")
    \o << <<"createWorkspace", "">> >>
    \o RoleCalls("WorkspaceDashboardRole")
    \o << <<"getWorkspace", "">> >>

\* C9 (log holds the calls of the invocation in progress and, until the next
\* one starts, those of the one that ended): the remote calls of every
\* invocation follow the provisioning order with no step skipped or
\* reordered (createWorkspace alone may repeat); IAM
\* calls are issued only once both buckets exist, createWorkspace only once
\* the workspace role has its policy attached, the dashboard createRole only
\* once the workspace exists, and createWorkspace is passed the workspace
\* role's ARN and the workspace bucket's ARN.
LinearProvisioningOrder ==
    /\ IsPrefix(Squash(KeysOf(log)), ProvisioningOrder)
    /\ \A i \in DOMAIN log :
          log[i].op = "createWorkspace"
             => log[i].args = [workspaceId |-> workspaceId,
                               role |-> RoleArnOf(WorkspaceRoleName),
                               s3Location |-> S3BucketArn(WorkspaceBucketName)]
    /\ pc \in {"createRole", "createPolicy", "attachRolePolicy"}
          => {WorkspaceBucketName, LogsBucketName} \subseteq DOMAIN s3
    /\ pc \in {"retryWorkspaceCreation", "delay"}
          => /\ WorkspaceRoleName \in DOMAIN iamRoles
             /\ iamRoles[WorkspaceRoleName].attached # {}
    /\ (pc \in {"createRole", "createPolicy", "attachRolePolicy"}
            /\ roleType = "WorkspaceDashboardRole")
          => (workspaceId \in DOMAIN tm /\ workspaceArn = tm[workspaceId])

\* C9 witness: a run that went through every state to Done, retrying once.
LinearProvisioningOrderWitness ==
    \E i \in DOMAIN runs :
        /\ Succeeded(runs[i])
        /\ NumCalls(runs[i].calls, "createWorkspace") = 2
        /\ Len(runs[i].calls) = Len(ProvisioningOrder) + 1

\* ---- the teardown of the buckets
CallsOn(calls, op, b) == SelectSeq(calls, LAMBDA c : c.op = op /\ c.args.Bucket = b)
PagesOf(op, b) == SelectSeq(pages, LAMBDA p : p.op = op /\ p.Bucket = b)
\* The page requests a listing of n items takes.
PagesNeeded(n) == IF n = 0 THEN 1 ELSE (n + PageSize - 1) \div PageSize
\* The buckets the teardown is about that exist: the workspace bucket and
\* the target of its access logs.
TeardownTargets ==
    {b \in DOMAIN s3 : \/ b = workspaceBucket
                       \/ /\ workspaceBucket \in DOMAIN s3
                          /\ b = s3[workspaceBucket].logging}
TeardownDone == pc = "idle" /\ runs # <<>> /\ Succeeded(Last(runs))
RECURSIVE Flatten(_)
Flatten(qs) == IF qs = <<>> THEN <<>> ELSE Head(qs) \o Flatten(Tail(qs))
\* The delete request each item of a page calls for.
DeleteRequestOf(b, item) ==
    IF "VersionId" \in DOMAIN item
    THEN [Bucket |-> b, Key |-> item.Key, VersionId |-> item.VersionId]
    ELSE [Bucket |-> b, Key |-> item.Key]
RequestsOfPage(p) ==
    IF p.op = "listObjectsV2"
    THEN [i \in DOMAIN p.resp.Contents |-> [Bucket |-> p.Bucket, Key |-> p.resp.Contents[i]]]
    ELSE LET items == p.resp.Versions \o p.resp.DeleteMarkers
         IN [i \in DOMAIN items |-> DeleteRequestOf(p.Bucket, items[i])]
ListedRequests == Flatten([i \in DOMAIN pages |-> RequestsOfPage(pages[i])])
Deletions ==
    LET ds == SelectSeq(log, LAMBDA c : c.op = "deleteObject")
    IN [i \in DOMAIN ds |-> ds[i].args]
Pending == [i \in DOMAIN todo |-> DeleteRequestOf(s3BucketName, todo[i])]

\* C7: a teardown without commit issues no deleteObject and no deleteBucket,
\* and a complete one has requested every page of listObjectsV2 and
\* listObjectVersions of the workspace bucket and of the target of its logs,
\* every key and every version being listed.
DryRunIssuesNoDelete ==
    ~nonDryRun =>
        /\ NumCalls(log, "deleteObject") = 0
        /\ NumCalls(log, "deleteBucket") = 0
        /\ TeardownDone =>
             \A b \in TeardownTargets :
                /\ Len(CallsOn(log, "listObjectsV2", b))
                     = PagesNeeded(Cardinality(CurrentKeys(s3[b].entries)))
                /\ Len(CallsOn(log, "listObjectVersions", b))
                     = PagesNeeded(Cardinality(s3[b].entries))
                /\ {r \in {ListedRequests[i] : i \in DOMAIN ListedRequests} : r.Bucket = b}
                     = {[Bucket |-> b, Key |-> k] : k \in CurrentKeys(s3[b].entries)}
                       \cup {[Bucket |-> b, Key |-> e.Key, VersionId |-> e.VersionId] :
                                e \in s3[b].entries}
\* C7: no step of a teardown without commit changes the storage service.
DryRunTeardown == []DryRunIssuesNoDelete /\ [][~nonDryRun => s3' = s3]_vars
\* A complete dry run over two buckets, the workspace bucket's keys and
\* versions taking more than one page each.
DryRunTeardownWitness ==
    /\ ~nonDryRun
    /\ TeardownDone
    /\ Cardinality(TeardownTargets) = 2
    /\ Len(CallsOn(log, "listObjectsV2", workspaceBucket)) >= 2
    /\ Len(CallsOn(log, "listObjectVersions", workspaceBucket)) >= 3
    /\ Len(reported) >= 5

\* C10: with commit, every key of every page of listObjectsV2 and every
\* version and delete marker of every page of listObjectVersions gets its
\* deleteObject, in the order listed; deleteBucket is issued at most once for
\* a bucket, after the last page of both listings and as the last call on
\* the bucket, and once for each bucket of a complete teardown.
CommittedTeardown ==
    nonDryRun =>
        /\ pc # "idle" => Deletions \o Pending = ListedRequests
        /\ TeardownDone => Deletions = ListedRequests
        /\ \A b \in {log[i].args.Bucket : i \in DOMAIN log} :
             LET calls == SelectSeq(log, LAMBDA c : c.args.Bucket = b)
                 objects == PagesOf("listObjectsV2", b)
                 versions == PagesOf("listObjectVersions", b)
             IN /\ Len(CallsOn(log, "deleteBucket", b)) <= 1
                /\ \A i \in DOMAIN calls :
                     calls[i].op = "deleteBucket" =>
                        /\ i = Len(calls)
                        /\ objects # <<>> /\ ~Last(objects).resp.IsTruncated
                        /\ versions # <<>> /\ ~Last(versions).resp.IsTruncated
                /\ (TeardownDone /\ objects # <<>>) =>
                        Len(CallsOn(log, "deleteBucket", b)) = 1
\* A complete committed teardown of two buckets where both listings of the
\* workspace bucket took several pages and a delete marker was listed.
CommittedTeardownWitness ==
    /\ nonDryRun
    /\ TeardownDone
    /\ NumCalls(log, "deleteBucket") = 2
    /\ Len(PagesOf("listObjectsV2", workspaceBucket)) >= 2
    /\ Len(PagesOf("listObjectVersions", workspaceBucket)) >= 2
    /\ \E i \in DOMAIN pages : pages[i].op = "listObjectVersions"
                               /\ pages[i].resp.DeleteMarkers # <<>>

\* ---- the teardown of a role
\* The place of each call in the order of the teardown of a role.
Rank(op) ==
    CASE op = "listInstanceProfilesForRole" -> 1
      [] op = "removeRoleFromInstanceProfile" -> 2
      [] op = "listRolePolicies" -> 3
      [] op = "deleteRolePolicy" -> 4
      [] op = "listAttachedRolePolicies" -> 5
      [] op \in {"detachRolePolicy", "deletePolicy"} -> 6
      [] op = "deleteRole" -> 7
\* The items the list call `op` was answered with, <<>> before its answer.
ItemsListed(op) ==
    Flatten([i \in DOMAIN pages |-> IF pages[i].op = op THEN pages[i].resp.Items ELSE <<>>])
\* The values of one argument of the calls of `op`, in order.
ArgsOf(op, arg) ==
    LET cs == SelectSeq(log, LAMBDA c : c.op = op) IN [i \in DOMAIN cs |-> cs[i].args[arg]]

\* C8: the calls of deleteIAMroleAndPolicy come in the order: the removals
\* from instance profiles, the deletions of inline policies, then for each
\* attached policy its detachRolePolicy with its deletePolicy right after,
\* and deleteRole once, as the last call, after a call for every item that
\* the three list calls returned.
RoleTeardownOrder ==
    /\ \A i \in 1..(Len(log) - 1) : Rank(log[i].op) <= Rank(log[i + 1].op)
    /\ \A i \in DOMAIN log :
         /\ log[i].op = "detachRolePolicy" =>
              IF i < Len(log)
              THEN /\ log[i + 1].op = "deletePolicy"
                   /\ log[i + 1].args.PolicyArn = log[i].args.PolicyArn
              ELSE pc \in {"deletePolicy", "idle"}
         /\ log[i].op = "deletePolicy" =>
              /\ i > 1
              /\ log[i - 1].op = "detachRolePolicy"
              /\ log[i - 1].args.PolicyArn = log[i].args.PolicyArn
         /\ log[i].op = "deleteRole" =>
              /\ i = Len(log)
              /\ NumCalls(log, "deleteRole") = 1
              /\ \A op \in {"listInstanceProfilesForRole", "listRolePolicies",
                            "listAttachedRolePolicies"} : NumCalls(log, op) = 1
              /\ ArgsOf("removeRoleFromInstanceProfile", "InstanceProfileName")
                   = ItemsListed("listInstanceProfilesForRole")
              /\ ArgsOf("deleteRolePolicy", "PolicyName")
                   = ItemsListed("listRolePolicies")
              /\ ArgsOf("detachRolePolicy", "PolicyArn")
                   = ItemsListed("listAttachedRolePolicies")
              /\ ArgsOf("deletePolicy", "PolicyArn")
                   = ItemsListed("listAttachedRolePolicies")
    /\ TeardownDone => Last(log).op = "deleteRole"
\* The complete teardown of a role with one instance profile, two inline
\* policies and one attached policy.
RoleTeardownOrderWitness ==
    /\ TeardownDone
    /\ OpsOf(log) = <<"listInstanceProfilesForRole", "removeRoleFromInstanceProfile",
                      "listRolePolicies", "deleteRolePolicy", "deleteRolePolicy",
                      "listAttachedRolePolicies", "detachRolePolicy", "deletePolicy",
                      "deleteRole">>
    /\ roleName \notin DOMAIN iamRoles

\* C11: the bucket torn down first is the TargetBucket of the live logging
\* configuration of the workspace bucket, every call about it comes before
\* the first list or delete call about the workspace bucket, and with commit
\* it is gone by then.
LoggingBucketFirst ==
    /\ (site = "logs" /\ (Len(log) > 1 \/ pc \notin {"getBucketLogging", "idle"}))
          => /\ workspaceBucket \in DOMAIN s3
             /\ s3BucketName = s3[workspaceBucket].logging
             /\ \A i \in 2..Len(log) : log[i].args.Bucket = s3BucketName
    /\ workspaceBucket \in DOMAIN s3
          => \A i \in 2..Len(log) :
                log[i].args.Bucket \in {workspaceBucket, s3[workspaceBucket].logging}
    /\ \A i, j \in 2..Len(log) :
          (i < j /\ log[i].args.Bucket = workspaceBucket)
             => log[j].args.Bucket = workspaceBucket
    /\ (site = "workspace" /\ nonDryRun)
          => \A i \in 2..Len(log) :
                log[i].args.Bucket \in DOMAIN s3 => log[i].args.Bucket = workspaceBucket
\* A committed teardown that emptied and deleted a logging target whose name
\* does not follow the convention, then the workspace bucket.
LoggingBucketFirstWitness ==
    /\ TeardownDone
    /\ nonDryRun
    /\ S3LoggingBucketName(workspaceBucket) # "audit-logs"
    /\ Len(CallsOn(log, "deleteObject", "audit-logs")) >= 2
    /\ Len(CallsOn(log, "deleteBucket", "audit-logs")) = 1
    /\ Len(CallsOn(log, "deleteBucket", workspaceBucket)) = 1

\* The workspace bucket was absent when the teardown started: it is absent
\* and the teardown did not delete it.
WorkspaceBucketWasAbsent ==
    workspaceBucket \notin DOMAIN s3 /\ CallsOn(log, "deleteBucket", workspaceBucket) = <<>>
TeardownEnded == pc = "idle" /\ runs # <<>>

\* C12: a teardown that finds no workspace bucket ends without raising,
\* with or without commit, after the one list call that was told so; any
\* other failure of a call about the workspace bucket is raised: a teardown
\* that ends without raising has had every call about an existing workspace
\* bucket answered, and a raised error is never no-such-bucket.
AbsentBucketTeardown ==
    TeardownEnded =>
        /\ WorkspaceBucketWasAbsent
              => /\ Succeeded(Last(runs))
                 /\ OpsOf(log) = <<"getBucketLogging", "listObjectsV2">>
        /\ (Succeeded(Last(runs)) /\ nonDryRun) => workspaceBucket \notin DOMAIN s3
        /\ (Succeeded(Last(runs)) /\ workspaceBucket \in DOMAIN s3)
              => /\ Len(CallsOn(log, "listObjectsV2", workspaceBucket))
                      = Len(PagesOf("listObjectsV2", workspaceBucket))
                 /\ Len(CallsOn(log, "listObjectVersions", workspaceBucket))
                      = Len(PagesOf("listObjectVersions", workspaceBucket))
                 /\ ~Last(pages).resp.IsTruncated
        /\ (Failed(Last(runs)) /\ site = "workspace")
              => /\ Last(runs).result.error.name # "NoSuchBucket"
                 /\ Last(log).args.Bucket = workspaceBucket
\* A committed teardown of an absent workspace bucket ended without raising.
AbsentBucketTeardownWitness ==
    /\ TeardownEnded
    /\ WorkspaceBucketWasAbsent
    /\ nonDryRun
    /\ Succeeded(Last(runs))

\* C13: when getBucketLogging fails because the bucket does not exist the
\* teardown goes on with listObjectsV2 of the workspace bucket and touches no
\* other bucket; when it fails in another way the teardown ends with that
\* failure and getBucketLogging is its only call; and while the workspace
\* bucket has a logging target the call after getBucketLogging is about
\* that target, so no failure was passed over.
LoggingQueryFailure ==
    /\ (WorkspaceBucketWasAbsent /\ Len(log) = 1)
          => pc = "listObjectsV2" /\ site = "workspace" /\ s3BucketName = workspaceBucket
    /\ (WorkspaceBucketWasAbsent /\ Len(log) >= 2)
          => /\ log[2].op = "listObjectsV2"
             /\ \A i \in DOMAIN log : log[i].args.Bucket = workspaceBucket
    /\ (TeardownEnded /\ Len(log) = 1)
          => /\ Failed(Last(runs))
             /\ ~Includes(Last(runs).result.error.message,
                          "The specified bucket does not exist")
             /\ workspaceBucket \in DOMAIN s3
    /\ (workspaceBucket \in DOMAIN s3 /\ s3[workspaceBucket].logging # Undefined
            /\ Len(log) >= 2)
          => log[2].args.Bucket = s3[workspaceBucket].logging
\* getBucketLogging failed in another way while the workspace bucket and
\* its logging target held objects: the teardown ended there.
LoggingQueryFailureWitness ==
    /\ TeardownEnded
    /\ Failed(Last(runs))
    /\ OpsOf(log) = <<"getBucketLogging">>
    /\ Cardinality(TeardownTargets) = 2
    /\ \A b \in TeardownTargets : s3[b].entries # {}

\* What each bucket call that may abort provisioning leaves in the bucket.
SettingOf(op) ==
    CASE op = "putBucketVersioning" -> "versioning"
      [] op = "putBucketPolicy" -> "denyInsecureTransport"
      [] op = "putPublicAccessBlock" -> "publicAccessBlock"
      [] op = "putBucketEncryption" -> "encryption"
      [] op = "putBucketCors" -> "cors"
\* The call log[i] was followed by the call `op`, or will be.
FollowedBy(i, op) ==
    IF i < Len(log) THEN log[i + 1].op = op ELSE pc = op

\* C14: putBucketAcl is always followed by putBucketLogging, and
\* putBucketLogging by the createRole of the workspace role with the ARN of
\* the workspace bucket returned, whether or not they took effect; any other
\* bucket call is followed by a further call only when it took effect.
SoftLoggingSetup ==
    \A i \in DOMAIN log :
        /\ log[i].op = "putBucketAcl" => FollowedBy(i, "putBucketLogging")
        /\ log[i].op = "putBucketLogging"
              => /\ FollowedBy(i, "createRole")
                 /\ s3BucketArn = S3BucketArn(WorkspaceBucketName)
                 /\ i < Len(log) => log[i + 1].args.roleType = "WorkspaceRole"
                 /\ i = Len(log) => roleType = "WorkspaceRole"
        /\ (log[i].op = "createBucket" /\ (i < Len(log) \/ pc # "idle"))
              => log[i].args.Bucket \in DOMAIN s3
        /\ (log[i].op \in {"putBucketVersioning", "putBucketPolicy", "putPublicAccessBlock",
                           "putBucketEncryption", "putBucketCors"}
               /\ (i < Len(log) \/ pc # "idle"))
              => SettingOf(log[i].op) \in s3[log[i].args.Bucket].settings
\* A run went on to the roles after both logging steps had failed.
SoftLoggingSetupWitness ==
    /\ NumCalls(log, "createRole") >= 1
    /\ NumCalls(log, "putBucketAcl") = 1
    /\ ~s3[LogsBucketName].acl
    /\ s3[WorkspaceBucketName].logging = Undefined

\* The calls provisioning is made of.
ProvisioningOps ==
    {"getWorkspace", "getCurrentIdentity", "createBucket", "putBucketVersioning",
     "putBucketPolicy", "putPublicAccessBlock", "putBucketEncryption", "putBucketCors",
     "putBucketAcl", "putBucketLogging", "createRole", "createPolicy",
     "attachRolePolicy", "createWorkspace"}
\* What the calls before the last one of the log created is there.
CreatedStillExists ==
    \A i \in 1..(Len(log) - 1) :
        /\ log[i].op = "createBucket" => log[i].args.Bucket \in DOMAIN s3
        /\ log[i].op = "createRole" => log[i].args.RoleName \in DOMAIN iamRoles
        /\ log[i].op = "createPolicy"
              => PolicyArnOf(log[i].args.PolicyName) \in iamPolicies
        /\ (log[i].op = "createWorkspace" /\ log[i + 1].op # "createWorkspace")
              => workspaceId \in DOMAIN tm
NoCompensation ==
    /\ \A i \in DOMAIN log : log[i].op \in ProvisioningOps
    /\ (pc = "idle" /\ runs # <<>>) => Last(runs).calls = log
    /\ CreatedStillExists
\* No step takes a bucket, a setting of a bucket, a role, a policy or a
\* workspace away.
NothingRemoved ==
    /\ \A b \in DOMAIN s3 :
          /\ b \in DOMAIN s3'
          /\ s3[b].settings \subseteq s3'[b].settings
          /\ s3[b].logging # Undefined => s3'[b].logging = s3[b].logging
          /\ s3[b].acl => s3'[b].acl
    /\ \A r \in DOMAIN iamRoles :
          r \in DOMAIN iamRoles' /\ iamRoles[r].attached \subseteq iamRoles'[r].attached
    /\ iamPolicies \subseteq iamPolicies'
    /\ \A w \in DOMAIN tm : w \in DOMAIN tm' /\ tm'[w] = tm[w]

\* C15: a run that fails ends with the failing call, every run is made of
\* provisioning calls only, and nothing that was created is ever taken
\* away: it is all there when the error reaches the caller.
NoRollback == []NoCompensation /\ [][NothingRemoved]_vars
\* A run failed after it had created both buckets and the workspace role.
NoRollbackWitness ==
    /\ pc = "idle"
    /\ runs # <<>>
    /\ Failed(Last(runs))
    /\ NumCalls(log, "createBucket") = 2
    /\ NumCalls(log, "createPolicy") = 1
    /\ Len(log) > 1 /\ Last(log).op = "attachRolePolicy"
    /\ {WorkspaceBucketName, LogsBucketName} \subseteq DOMAIN s3
    /\ WorkspaceRoleName \in DOMAIN iamRoles

\* C16: whatever the numbers of inline and of attached policies of the role,
\* none is left on it when deleteRole is issued.
NoPolicyLeftAtDeleteRole ==
    (pc = "deleteRole" /\ roleName \in DOMAIN iamRoles)
        => /\ iamRoles[roleName].inline = {}
           /\ iamRoles[roleName].attached = {}

\* C17: an invocation of deleteWorkspace issues the deleteWorkspace call
\* once when nonDryRun is true and no call otherwise; it ends with the error
\* of the call when the call failed, and without one otherwise.
DeleteWorkspaceGating ==
    /\ pc = "deleteWorkspace" => log = <<>>
    /\ TeardownEnded
          => /\ OpsOf(log) = IF nonDryRun THEN <<"deleteWorkspace">> ELSE <<>>
             /\ Last(runs).calls = log
             /\ \A i \in DOMAIN log : log[i].args.workspaceId = workspaceId
             /\ IF lookup.kind = "error"
                THEN Last(runs).result = [status |-> "error", error |-> lookup.error]
                ELSE Succeeded(Last(runs))
\* A committed deleteWorkspace whose call failed for an existing workspace,
\* after a dry run.
DeleteWorkspaceGatingWitness ==
    /\ TeardownEnded
    /\ Len(runs) = 2
    /\ runs[1].calls = <<>>
    /\ nonDryRun
    /\ workspaceId \in DOMAIN tm
    /\ Failed(Last(runs))
    /\ Last(runs).result.error = RemoteFailure

\* C18: the createBucket request has no CreateBucketConfiguration exactly
\* when the region is us-east-1; in any other region its LocationConstraint
\* is the region.
RegionSpecialCase ==
    \A i \in DOMAIN log :
        log[i].op = "createBucket"
           => IF region = "us-east-1"
              THEN DOMAIN log[i].args = {"Bucket"}
              ELSE /\ DOMAIN log[i].args = {"Bucket", "CreateBucketConfiguration"}
                   /\ log[i].args.CreateBucketConfiguration
                         = [LocationConstraint |-> region]
\* Both buckets were created in us-east-1.
RegionSpecialCaseWitness ==
    /\ region = "us-east-1"
    /\ NumCalls(log, "createBucket") = 2
    /\ Last(log).op = "createBucket"
    /\ LogsBucketName \in DOMAIN s3

\* The names expected for the workspace id, the account and the region of
\* this behaviour, written out in lower case.
ExpectedSuffix ==
    (CASE workspaceId = "w1" -> "w1" [] workspaceId = "Demo" -> "demo")
    \o "-123456789012-"
    \o (CASE region = "us-east-1" -> "iad" [] region = "us-west-2" -> "pdx")
ExpectedBucketName == "twinmaker-workspace-" \o ExpectedSuffix
ExpectedRoleName(rt) ==
    CASE rt = "WorkspaceRole" -> "twinmaker-workspace-" \o ExpectedSuffix
      [] rt = "WorkspaceDashboardRole" -> "twinmaker-workspacedashboardrole-" \o ExpectedSuffix
ExpectedPolicyName(rt) == ExpectedRoleName(rt) \o "-autopolicy"

\* C19: in every run, whatever the services hold by then, the bucket, role
\* and policy names sent are the same lower-case names, fixed by the
\* workspace id, the account id and the region.
NamingDeterminism ==
    \A i \in DOMAIN log :
        /\ log[i].op = "createBucket"
              => log[i].args.Bucket \in {ExpectedBucketName, ExpectedBucketName \o "-logs"}
        /\ log[i].op = "createRole"
              => log[i].args.RoleName = ExpectedRoleName(log[i].args.roleType)
        /\ log[i].op = "createPolicy"
              => log[i].args.PolicyName = ExpectedPolicyName(log[i].args.roleType)
        /\ log[i].op = "attachRolePolicy"
              => /\ log[i].args.RoleName = ExpectedRoleName(log[i].args.roleType)
                 /\ log[i].args.PolicyArn
                       = "arn:aws:iam::123456789012:policy/"
                            \o ExpectedPolicyName(log[i].args.roleType)
\* Two runs for the id "Demo" in us-east-1, the second one finding the
\* bucket the first one left, sent the same bucket name; the second named
\* both roles.
NamingDeterminismWitness ==
    /\ workspaceId = "Demo"
    /\ region = "us-east-1"
    /\ Len(runs) = 2
    /\ Len(runs[1].calls) > 3
    /\ runs[1].calls[3].op = "createBucket"
    /\ NumCalls(runs[2].calls, "createBucket") = 2
    /\ runs[2].calls[3].args.Bucket = runs[1].calls[3].args.Bucket
    /\ NumCalls(runs[2].calls, "createPolicy") = 2

\* createWorkspaceS3Bucket has returned in the run of the log.
BucketPairProvisioned == NumCalls(log, "putBucketLogging") >= 1
CoreSettings == {"versioning", "denyInsecureTransport", "publicAccessBlock", "encryption"}

\* C20, as stated: once the provisioning of the pair of buckets has returned,
\* the workspace bucket and the logging bucket both have versioning, the
\* policy, the public access block, encryption and the CORS configuration.
SecuredBucketSettings ==
    BucketPairProvisioned
        => \A b \in {WorkspaceBucketName, LogsBucketName} :
              /\ b \in DOMAIN s3
              /\ CoreSettings \cup {"cors"} \subseteq s3[b].settings

\* C20, amended: once the provisioning of the pair of buckets has returned,
\* both buckets have versioning, the policy, the public access block and
\* encryption; the workspace bucket has the CORS configuration as well, the
\* logging bucket has none, no putBucketCors being issued for it.
SecuredBucketSettingsPrimaryCors ==
    /\ BucketPairProvisioned
          => /\ \A b \in {WorkspaceBucketName, LogsBucketName} :
                   b \in DOMAIN s3 /\ CoreSettings \subseteq s3[b].settings
             /\ "cors" \in s3[WorkspaceBucketName].settings
    /\ LogsBucketName \in DOMAIN s3 => "cors" \notin s3[LogsBucketName].settings
    /\ \A i \in DOMAIN log :
          log[i].op = "putBucketCors" => log[i].args.Bucket = WorkspaceBucketName
\* The provisioning of the pair of buckets has just returned.
SecuredBucketSettingsWitness ==
    /\ BucketPairProvisioned
    /\ Last(log).op = "putBucketLogging"
    /\ pc = "createRole"
    /\ s3[LogsBucketName].acl
    /\ s3[WorkspaceBucketName].logging = LogsBucketName


\* The invocation in progress has been through all of prepareWorkspace: the
\* workspace was created and its last call attached the dashboard role's policy.
PrepareCompleted(calls, n) ==
    /\ n > 1
    /\ calls[n].op = "attachRolePolicy"
    /\ calls[n].args.roleType = "WorkspaceDashboardRole"
    /\ NumCalls(calls, "createWorkspace") >= 1
    /\ NumCalls(calls, "attachRolePolicy") = 2

\* C21: on the not-found path the second getWorkspace is issued only after
\* prepareWorkspace returned; the invocation returns the arn of the record
\* fetched then, and only if that record carries a workspaceId; otherwise it
\* ends with an error.
PostProvisionRefetch ==
    /\ \A i \in DOMAIN log :
          (i > 1 /\ log[i].op = "getWorkspace")
             => /\ AnsweredNotFound(lookup)
                /\ PrepareCompleted(log, i - 1)
                /\ workspaceArn # Undefined
                /\ i = Len(log)
    /\ pc = "getWorkspaceAfterPrepare" => PrepareCompleted(log, Len(log))
    /\ \A i \in DOMAIN runs :
          AnsweredNotFound(runs[i].lookup)
             => /\ Succeeded(runs[i])
                   => /\ runs[i].workspace.kind = "record"
                      /\ runs[i].workspace.workspaceId = runs[i].workspaceId
                      /\ runs[i].result.workspaceArn = runs[i].workspace.arn
                      /\ NumCalls(runs[i].calls, "getWorkspace") = 2
                      /\ Last(runs[i].calls).op = "getWorkspace"
                /\ (/\ NumCalls(runs[i].calls, "getWorkspace") = 2
                    /\ \/ runs[i].workspace.kind # "record"
                       \/ runs[i].workspace.workspaceId = Undefined)
                   => Failed(runs[i])

\* C21 witness: after provisioning, the record fetched carried the id but an
\* arn other than the one createWorkspace answered, and that arn was returned.
PostProvisionRefetchWitness ==
    \E i \in DOMAIN runs :
        /\ AnsweredNotFound(runs[i].lookup)
        /\ Succeeded(runs[i])
        /\ NumCalls(runs[i].calls, "createWorkspace") >= 1
        /\ runs[i].workspace.arn # WorkspaceArnOf(region, runs[i].workspaceId)
        /\ runs[i].result.workspaceArn = runs[i].workspace.arn


RoleFailed(n) == Err("Error", <<"Failed to create role ", n, ".">>)
PolicyFailed(arn) == Err("Error", <<"Failed to create policy for role ", arn, ".">>)
RoleNamesUsed == {RoleName(w, AccountId, regionToAirportCode(region), rt) :
                    w \in WorkspaceIds, rt \in RoleTypes}

\* C22: createRoleAndPolicy issues createRole, createPolicy and
\* attachRolePolicy in that order for its role; a createRole response without
\* the role's ARN ends it before createPolicy, a createPolicy response without
\* the policy's ARN ends it before attachRolePolicy, and the role's ARN is
\* handed back only once attachRolePolicy has returned.
RoleProvisionerFailFast ==
    /\ \A i \in DOMAIN log :
          /\ log[i].op = "createPolicy"
                => (i > 1 /\ log[i - 1].op = "createRole"
                          /\ log[i - 1].args.roleType = log[i].args.roleType)
          /\ log[i].op = "attachRolePolicy"
                => (i > 1 /\ log[i - 1].op = "createPolicy"
                          /\ log[i - 1].args.roleType = log[i].args.roleType)
          /\ log[i].op = "createWorkspace"
                => (i > 1 /\ log[i - 1].op \in {"attachRolePolicy", "createWorkspace"})
    /\ pc \in {"createPolicy", "attachRolePolicy"} => roleArn = RoleArnOf(CurRoleName)
    /\ workspaceRoleArn # Undefined
          => /\ workspaceRoleArn = RoleArnOf(WorkspaceRoleName)
             /\ \E i \in DOMAIN log :
                   /\ log[i].op = "attachRolePolicy"
                   /\ log[i].args.roleType = "WorkspaceRole"
    /\ \A i \in DOMAIN runs :
          Failed(runs[i])
             => /\ runs[i].result.error \in {RoleFailed(n) : n \in RoleNamesUsed}
                   => Last(runs[i].calls).op = "createRole"
                /\ runs[i].result.error \in
                        {PolicyFailed(RoleArnOf(n)) : n \in RoleNamesUsed}
                   => Last(runs[i].calls).op = "createPolicy"

\* C22 witness: the dashboard role's createPolicy answered without an ARN and
\* the invocation ended there, after the workspace role went through.
RoleProvisionerFailFastWitness ==
    \E i \in DOMAIN runs :
        /\ Failed(runs[i])
        /\ runs[i].result.error \in {PolicyFailed(RoleArnOf(n)) : n \in RoleNamesUsed}
        /\ NumCalls(runs[i].calls, "createPolicy") = 2
        /\ NumCalls(runs[i].calls, "attachRolePolicy") = 1


\* The calls prepareWorkspace issues once per role kind, and once per bucket.
PerRoleOps == {"createRole", "createPolicy", "attachRolePolicy"}
PerBucketOps == {"createBucket", "putBucketVersioning", "putBucketPolicy",
                 "putPublicAccessBlock", "putBucketEncryption"}

\* C23: within one run of prepareWorkspace no remote call other than
\* createWorkspace is repeated: each call on a bucket is issued at most once
\* for that bucket (createBucket at most twice in all), createRole,
\* createPolicy and attachRolePolicy at most once per role kind, whatever
\* failed; only createWorkspace is issued again.
OnlyCreateWorkspaceRetried ==
    /\ log # <<>>
          => /\ \A i \in 1..(Len(log) - 1) :
                   log[i].op = Last(log).op
                      => \/ Last(log).op = "createWorkspace"
                         \/ /\ Last(log).op = "getWorkspace"
                            /\ i = 1
                            /\ NumCalls(log, "getWorkspace") = 2
                         \/ /\ Last(log).op \in PerRoleOps
                            /\ log[i].args.roleType # Last(log).args.roleType
                         \/ /\ Last(log).op \in PerBucketOps
                            /\ log[i].args.Bucket # Last(log).args.Bucket
             /\ \A op \in PerRoleOps \cup PerBucketOps : NumCalls(log, op) <= 2
             /\ \A op \in {"getCurrentIdentity", "putBucketCors", "putBucketAcl",
                            "putBucketLogging"} : NumCalls(log, op) <= 1
    /\ \A i \in DOMAIN runs :
          ~runs[i].healthy
             => \A op \in PerRoleOps \cup PerBucketOps : NumCalls(runs[i].calls, op) <= 2

\* C23 witness: against faulty services createWorkspace went out three times
\* while every other provisioning call went out once per resource, and the
\* invocation then failed at the dashboard role.
OnlyCreateWorkspaceRetriedWitness ==
    /\ pc = "idle"
    /\ runs # <<>>
    /\ Failed(Last(runs))
    /\ NumCalls(log, "createWorkspace") = 3
    /\ NumCalls(log, "createBucket") = 2
    /\ NumCalls(log, "createRole") = 2
    /\ Last(log).op = "createRole"


\* The list request `c` goes out after the answers in `pages`: it carries
\* what the answer before it, to the same request on the same bucket, named
\* as the place to continue from, and that answer was truncated.
ChainedRequest(c) ==
    LET prev == PagesOf(c.op, c.args.Bucket) IN
    /\ prev # <<>> => Last(prev).resp.IsTruncated
    /\ c.op = "listObjectsV2"
          => c.args.ContinuationToken =
                IF prev = <<>> THEN NoKey ELSE Last(prev).resp.NextContinuationToken
    /\ c.op = "listObjectVersions"
          => /\ c.args.VersionIdMarker =
                   IF prev = <<>> THEN NoVersionId
                   ELSE Last(prev).resp.NextVersionIdMarker
             /\ c.args.KeyMarker =
                   IF prev = <<>> THEN NoKey ELSE Last(prev).resp.NextKeyMarker
ChainedListStep ==
    (Len(log') = Len(log) + 1 /\ Last(log').op \in {"listObjectsV2", "listObjectVersions"})
        => ChainedRequest(Last(log'))

\* C25: in deleteS3Bucket every listObjectsV2 request carries the
\* continuation token of the answer just before it, none on the first one,
\* and every listObjectVersions request the two markers of the answer just
\* before it; a loop issues no request after an answer that is not
\* truncated, and the invocation comes to its end.
PaginationChaining == [][ChainedListStep]_vars /\ <>(pc = "idle")

\* C25 witness: a teardown ended after both loops had gone round with a
\* token and with markers.
PaginationChainingWitness ==
    /\ pc = "idle"
    /\ \E i \in DOMAIN log :
          log[i].op = "listObjectsV2" /\ log[i].args.ContinuationToken # NoKey
    /\ \E i \in DOMAIN log :
          /\ log[i].op = "listObjectVersions"
          /\ log[i].args.KeyMarker # NoKey
          /\ log[i].args.VersionIdMarker # NoVersionId


\* The calls of deleteIAMroleAndPolicy before deleteRole.
RoleTeardownOps ==
    {"listInstanceProfilesForRole", "removeRoleFromInstanceProfile", "listRolePolicies",
     "deleteRolePolicy", "listAttachedRolePolicies", "detachRolePolicy", "deletePolicy"}
\* The step ends the invocation: e reaches the caller after the call just
\* issued, and deleteRole was not issued.
PropagatesToCaller(e) ==
    /\ pc' = "idle"
    /\ Len(log') = Len(log) + 1
    /\ Len(runs') = Len(runs) + 1
    /\ Last(runs').result = [status |-> "error", error |-> e]
    /\ Last(runs').calls = log'
    /\ NumCalls(log', "deleteRole") = 0
RoleTeardownFailureStep ==
    /\ (pc \in RoleTeardownOps \ {"deletePolicy"} /\ roleName \notin DOMAIN iamRoles)
          => PropagatesToCaller(NoSuchEntity)
    /\ (pc = "deletePolicy" /\ \E r \in DOMAIN iamRoles : Head(todo) \in iamRoles[r].attached)
          => PropagatesToCaller(DeleteConflict)
    /\ (pc \in RoleTeardownOps /\ pc' = "idle")
          => PropagatesToCaller(Last(runs').result.error)
    /\ (pc \in RoleTeardownOps /\ pc' = "deleteRole")
          => (todo' = <<>> \/ Tail(todo) = <<>>)

\* C27: a failure of a list call or of removeRoleFromInstanceProfile,
\* deleteRolePolicy, detachRolePolicy or deletePolicy in
\* deleteIAMroleAndPolicy reaches the caller as it is, no further call is
\* issued, and deleteRole is not issued in that invocation.
RoleTeardownFailuresFatal == [][RoleTeardownFailureStep]_vars

\* C27 witness: deletePolicy was refused for a policy another role still has
\* attached, after inline policies had been deleted, and the invocation ended
\* there with the role left in place.
RoleTeardownFailuresFatalWitness ==
    /\ pc = "idle"
    /\ runs # <<>>
    /\ Last(runs).result = [status |-> "error", error |-> DeleteConflict]
    /\ Last(log).op = "deletePolicy"
    /\ NumCalls(log, "deleteRolePolicy") >= 1
    /\ NumCalls(log, "deleteRole") = 0
    /\ roleName \in DOMAIN iamRoles


\* The createWorkspace attempts of the invocation in progress.
Attempted == NumCalls(log, "createWorkspace")

\* C29: in retryWorkspaceCreation the 2000 ms delays performed are as many
\* as the createWorkspace attempts that failed with a propagation signature:
\* every such failure is followed by one delay, an invocation that gets its
\* workspace on attempt k has slept k - 1 times, and one that ends in
\* 'Retry exhausted' has slept 10 times, the last time after the 10th attempt.
DelayCount ==
    /\ pc = "retryWorkspaceCreation" => slept = 2000 * Attempted
    /\ pc = "delay"
          => /\ HasPropagationSignature(lastErr)
             /\ Last(log).op = "createWorkspace"
             /\ slept = 2000 * (Attempted - 1)
    /\ (pc \in AfterRetry /\ workspaceArn # Undefined) => slept = 2000 * (Attempted - 1)
    /\ \A i \in DOMAIN runs :
          LET k == NumCalls(runs[i].calls, "createWorkspace") IN
          /\ (Succeeded(runs[i]) /\ k >= 1) => runs[i].slept = 2000 * (k - 1)
          /\ (Failed(runs[i]) /\ runs[i].result.error = RetryExhausted)
                => /\ k = 10
                   /\ runs[i].slept = 2000 * 10
                   /\ Last(runs[i].calls).op = "createWorkspace"
          /\ (Failed(runs[i]) /\ k >= 1 /\ runs[i].result.error # RetryExhausted)
                => runs[i].slept = 2000 * (k - 1)

\* C29 witness: an invocation got its workspace on the third attempt, after
\* two delays, and returned.
DelayCountWitness ==
    \E i \in DOMAIN runs :
        /\ Succeeded(runs[i])
        /\ NumCalls(runs[i].calls, "createWorkspace") = 3
        /\ runs[i].slept = 4000


\* An error made by the code around a remote error: an Error whose message
\* starts with the code's own words and goes on with the remote error's.
WrapsRemoteError(e) ==
    /\ e.name = "Error"
    /\ Len(e.message) >= 2
    /\ \E r \in {RemoteFailure} \cup CreateWorkspaceErrors :
          \E i \in 2..Len(e.message) : e.message[i] = Head(r.message)
\* The errors the code makes where no remote call failed.
LocalErrors ==
    {RetryExhausted, Err("Error", <<"Failed to create Workspace">>),
     Err("Error", <<"Unable to get a valid workspace">>)}
    \cup {RoleFailed(n) : n \in RoleNamesUsed}
    \cup {PolicyFailed(RoleArnOf(n)) : n \in RoleNamesUsed}

\* C28: every failure that reaches the caller of createWorkspaceIfNotExists
\* is an error made by the code that names what failed and, where a remote
\* call failed, carries the remote error's message.
DescriptiveErrorWrapper ==
    \A i \in DOMAIN runs :
        Failed(runs[i])
            => \/ runs[i].result.error \in LocalErrors
               \/ WrapsRemoteError(runs[i].result.error)


\* The five keys prepareWorkspace starts policyParams with, and the two it
\* adds once the workspace is there.
FirstKeys == {"accountId", "accountArn", "region", "workspaceId", "workspaceS3BucketArn"}
LaterKeys == {"workspaceArn", "dashboardRoleAssumedByArn"}
\* The documents as the claim has them rendered.
PrimaryPolicyDocument ==
    [document |-> "workspaceRolePolicy",
     text |-> <<AccountId, AccountArn, region, workspaceId,
                S3BucketArn(WorkspaceBucketName), "{workspaceArn}",
                "{dashboardRoleAssumedByArn}">>]
DashboardDocument(name) ==
    [document |-> name,
     text |-> <<AccountId, AccountArn, region, workspaceId,
                S3BucketArn(WorkspaceBucketName), WorkspaceArnOf(region, workspaceId),
                AccountArn>>]
PolicyParamsState ==
    /\ DOMAIN policyParams \in {{}, FirstKeys, FirstKeys \cup LaterKeys}
    /\ DOMAIN policyParams # {}
          => /\ NumCalls(log, "putBucketLogging") = 1
             /\ policyParams["workspaceS3BucketArn"] = S3BucketArn(WorkspaceBucketName)
    /\ "workspaceArn" \in DOMAIN policyParams
          => /\ NumCalls(log, "createWorkspace") >= 1
             /\ workspaceArn # Undefined
             /\ policyParams["workspaceArn"] = workspaceArn
             /\ policyParams["dashboardRoleAssumedByArn"] = policyParams["accountArn"]
             /\ policyParams["dashboardRoleAssumedByArn"] = AccountArn
    /\ \A i \in DOMAIN log :
          /\ (log[i].op = "createPolicy" /\ log[i].args.roleType = "WorkspaceRole")
                => /\ log[i].args.PolicyDocument = PrimaryPolicyDocument
                   /\ \A j \in 1..i : log[j].op # "createWorkspace"
          /\ (log[i].op = "createPolicy" /\ log[i].args.roleType = "WorkspaceDashboardRole")
                => log[i].args.PolicyDocument =
                      DashboardDocument("workspaceDashboardRolePolicy")
          /\ (log[i].op = "createRole" /\ log[i].args.roleType = "WorkspaceDashboardRole")
                => /\ log[i].args.AssumeRolePolicyDocument =
                         DashboardDocument("workspaceDashboardRoleAssumePolicy")
                   /\ log[i - 1].op = "createWorkspace"
PolicyParamsStep ==
    pc # "idle"
        => /\ DOMAIN policyParams \subseteq DOMAIN policyParams'
           /\ \A k \in DOMAIN policyParams : policyParams'[k] = policyParams[k]
           /\ (DOMAIN policyParams' # DOMAIN policyParams /\ DOMAIN policyParams # {})
                 => (pc = "retryWorkspaceCreation" /\ workspaceArn' # Undefined)

\* C26: policyParams only grows during prepareWorkspace: the workspace role's
\* policy is rendered from exactly the five first keys, before any
\* createWorkspace call; workspaceArn and dashboardRoleAssumedByArn, the
\* caller's accountArn, come in only once createWorkspace has succeeded and
\* before the dashboard role's documents are rendered; no key is removed or
\* given another value.
PolicyParamsAccumulation == []PolicyParamsState /\ [][PolicyParamsStep]_vars

\* C26 witness: the dashboard role's policy went out rendered with the seven
\* keys, after the workspace role's policy had gone out with the first five.
PolicyParamsAccumulationWitness ==
    /\ DOMAIN policyParams = FirstKeys \cup LaterKeys
    /\ NumCalls(log, "createPolicy") = 2
    /\ Last(log).op = "createPolicy"
    /\ Last(log).args.PolicyDocument.text[6] = workspaceArn


\* ---------------------------------------------------------------------------
\* WidgetTile: one mounted tile, the dashboard store it reads and dispatches
\* to, and the events the user and the parent component can raise on it.
\* ---------------------------------------------------------------------------

\* How many invocations of onDelete are followed.
MaxDeletes == 2

\* The title props tried: none, the empty string, a text.
Titles == {Undefined, "", "Widget title"}

\* JavaScript's truthiness of a title.
Truthy(t) == t \notin {Undefined, ""}

\* Everything a WidgetTile event leaves alone.
tileFrame == <<remoteVars, pc, localVars, teardownVars, obsVars, renderVars, awaitVars>>

removeableProp == removeable
\* const isRemoveable = !isReadOnly && removeable
isRemoveable == ~readOnly /\ removeable
\* const headerVisible = !isReadOnly || title
headerVisible == ~readOnly \/ Truthy(title)

\* The header's delete button and the modal are rendered inside the header;
\* the modal shows its buttons while visible.
DeleteButtonRendered == headerVisible /\ isRemoveable
ModalShown == headerVisible /\ visible

InitWidgetTile ==
    /\ region = "us-east-1"
    /\ tm = <<>>
    /\ s3 = <<>>
    /\ iamRoles = <<>>
    /\ iamPolicies = {}
    /\ pc = "idle"
    /\ workspaceId = "w1"
    /\ healthy = TRUE
    /\ s3BucketName = Undefined
    /\ roleType = Undefined
    /\ attempts = 0
    /\ roleArn = Undefined
    /\ s3BucketArn = Undefined
    /\ workspaceRoleArn = Undefined
    /\ workspaceArn = Undefined
    /\ lookup = NoAnswer
    /\ workspace = NoAnswer
    /\ lastErr = NoError
    /\ RenderIdle
    /\ TeardownIdle
    /\ log = <<>>
    /\ slept = 0
    /\ runs = <<>>
    /\ history = <<>>
    /\ inFlight = {}
    /\ suspended = FALSE
    /\ readOnly \in BOOLEAN
    /\ removeable \in BOOLEAN
    /\ title \in Titles
    /\ visible = FALSE
    /\ gridEnabled = TRUE
    /\ onDeleteCalls = 0

\* The dashboard switches between edit and preview mode.
ChangeReadOnly ==
    /\ readOnly' = ~readOnly
    /\ UNCHANGED <<removeable, title, visible, gridEnabled, onDeleteCalls, tileFrame>>

\* The parent renders the tile with other props.
ChangeProps ==
    /\ \E r \in BOOLEAN, t \in Titles :
          /\ <<r, t>> # <<removeable, title>>
          /\ removeable' = r
          /\ title' = t
    /\ UNCHANGED <<readOnly, visible, gridEnabled, onDeleteCalls, tileFrame>>

disableGridMovement ==
    /\ gridEnabled' = FALSE
    /\ UNCHANGED <<readOnly, removeable, title, visible, onDeleteCalls, tileFrame>>

enableGridMovement ==
    /\ gridEnabled' = TRUE
    /\ UNCHANGED <<readOnly, removeable, title, visible, onDeleteCalls, tileFrame>>

handleDelete ==
    /\ DeleteButtonRendered
    /\ gridEnabled' = FALSE
    /\ visible' = TRUE
    /\ UNCHANGED <<readOnly, removeable, title, onDeleteCalls, tileFrame>>

handleCloseModal ==
    /\ ModalShown
    /\ gridEnabled' = TRUE
    /\ visible' = FALSE
    /\ UNCHANGED <<readOnly, removeable, title, onDeleteCalls, tileFrame>>

handleSubmit ==
    /\ ModalShown
    /\ onDeleteCalls < MaxDeletes
    /\ onDeleteCalls' = onDeleteCalls + 1
    /\ gridEnabled' = TRUE
    /\ visible' = FALSE
    /\ UNCHANGED <<readOnly, removeable, title, tileFrame>>

NextWidgetTile ==
    \/ ChangeReadOnly
    \/ ChangeProps
    \/ disableGridMovement
    \/ enableGridMovement
    \/ handleDelete
    \/ handleCloseModal
    \/ handleSubmit

SpecWidgetTile == InitWidgetTile /\ [][NextWidgetTile]_vars

\* The tile shows no delete button.
NotDeletable == readOnly \/ ~removeable
ConfirmedDeleteStep ==
    /\ onDeleteCalls' # onDeleteCalls
          => /\ handleSubmit
             /\ visible
             /\ onDeleteCalls' = onDeleteCalls + 1
    /\ (visible' /\ ~visible)
          => /\ handleDelete
             /\ ~readOnly
             /\ removeable
    /\ (~visible /\ NotDeletable /\ NotDeletable')
          => /\ ~visible'
             /\ onDeleteCalls' = onDeleteCalls
    /\ (handleCloseModal \/ handleSubmit)
          => /\ gridEnabled'
             /\ ~visible'

\* C30: onDelete(widget) is invoked only by handleSubmit of the confirmation
\* modal; the modal becomes visible only through handleDelete, and only on a
\* tile that is removeable in a dashboard that is not read-only; while a tile
\* with a closed modal stays read-only or not removeable, no event opens the
\* modal or invokes onDelete; closing and submitting the modal both enable
\* grid movement and hide the modal.
WidgetTileConfirmedDelete == [][ConfirmedDeleteStep]_vars

\* C30 witness: a delete was confirmed, which closed the modal and enabled the
\* grid, and the tile is read-only afterwards with its modal closed.
WidgetTileConfirmedDeleteWitness ==
    /\ onDeleteCalls = 1
    /\ ~visible
    /\ gridEnabled
    /\ NotDeletable


\* ---------------------------------------------------------------------------
\* The remote calls in flight: every remote call of createWorkspaceIfNotExists,
\* deleteWorkspaceBucketAndLogs and deleteIAMroleAndPolicy is the operand of
\* an `await`, so a call takes two steps: the function issues it and is
\* suspended, then the answer arrives and the function runs on to its next
\* await.
\* ---------------------------------------------------------------------------

\* The function is at an await whose remote call it issues: not between
\* invocations, not in delay(2000), not past the retry loop.
AtRemoteCall ==
    /\ pc \notin {"idle", "delay"}
    /\ pc = "retryWorkspaceCreation" => RetryLoopCondition(attempts)

\* The function issues the remote call it is at and is suspended.
Await ==
    /\ AtRemoteCall
    /\ ~suspended
    /\ inFlight' = inFlight \cup {pc}
    /\ suspended' = TRUE
    /\ UNCHANGED <<remoteVars, pc, localVars, teardownVars, obsVars, renderVars,
                   widgetVars>>

\* The function can take its next step: the call it is at, if any, is out.
Resumable == AtRemoteCall => (suspended /\ pc \in inFlight)

ResumeCreateWorkspaceIfNotExists ==
    /\ Resumable
    /\ workspaceBucket = Undefined
    /\ roleName = Undefined
    /\ Next

ResumeDeleteWorkspaceBucketAndLogs ==
    /\ Resumable
    /\ workspaceBucket # Undefined
    /\ NextBucketTeardown

ResumeDeleteIAMroleAndPolicy ==
    /\ Resumable
    /\ roleName # Undefined
    /\ NextRoleTeardown

InitAwait == Init \/ InitBucketTeardown \/ InitRoleTeardown

NextAwait ==
    \/ Await
    \/ ResumeCreateWorkspaceIfNotExists
    \/ ResumeDeleteWorkspaceBucketAndLogs
    \/ ResumeDeleteIAMroleAndPolicy

SpecAwait == InitAwait /\ [][NextAwait]_vars

OneCallInFlight ==
    /\ Cardinality(inFlight) <= 1
    /\ suspended => inFlight = {pc}
CallAfterAnswerStep ==
    /\ inFlight' \ inFlight # {} => (inFlight = {} /\ ~suspended)
    /\ Len(log') > Len(log) => (inFlight = {pc} /\ inFlight' = {})

\* C24: within one provisioning or teardown invocation at most one remote
\* call is in flight at any time: a call is issued only when none is in
\* flight, and each call is answered, by its result or its failure, before
\* the function goes on.
SequentialRemoteCalls == []OneCallInFlight /\ [][CallAfterAnswerStep]_vars

\* C24 witness: a deleteObject call is in flight, alone, after the calls
\* before it have been answered.
SequentialRemoteCallsWitness ==
    /\ inFlight = {"deleteObject"}
    /\ suspended
    /\ Len(log) >= 3
    /\ Last(log).op = "deleteObject"
====
